---- MODULE Spec2Model ----
(***************************************************************************)
(* A model of cconv / reviewit: the agent invocation and response          *)
(* reconciliation engine (ClaudeProvider, extractJsonFromResponse) and the *)
(* concurrency-bounded review batch (reviewCommand / fixCommand).          *)
(*                                                                         *)
(* The specifications of the module:                                       *)
(*   SpecExtract  extractJsonFromResponse applied to captured outputs      *)
(*   SpecRetry    one provider call (generateRules, reviewFile,            *)
(*                reviewDiff, fixIssue) with its attempts                  *)
(*   SpecBatch    a review batch run through the p-limit limiter           *)
(*   SpecCommand  the review and fix commands up to their provider calls   *)
(*   SpecReport   the results of a review batch collected and sorted        *)
(*   SpecFix      the fix loop of the fix command on one file               *)
(*   SpecInvoke   the agent processes of a batch, each with its timer       *)
(*   SpecInvokeFair  SpecInvoke with the scheduling the runtime guarantees  *)
(*   SpecConfig   the command line and the configuration file resolved to   *)
(*                the provider configuration and the concurrency ceiling    *)
(*   SpecDiff     parseDiff and formatDiffForReview on the hunks of a diff  *)
(*   SpecAdd      runs of the add command: rules generated per file, merged *)
(*                into the stored rule set and saved                        *)
(*   SpecPaths    the fix command grouping the review results by the file   *)
(*                they name, reading and writing those files                *)
(*   SpecOwn      the generateRules calls of one add run, each with its     *)
(*                retry state                                               *)
(* Each specification holds the variables of the others at their idle      *)
(* values.                                                                 *)
(***************************************************************************)
EXTENDS Integers, Sequences, FiniteSets, TLC

VARIABLES
    exResponse, exSchema, exOutcome, exPhase,
    op, cfgMaxRetries, attempt, lastSessionId, lastError, invocations,
    errors, callState, callError, callValue,
    optMaxConcurrency, cfgMaxConcurrency, nTasks, created, queue,
    activeCount, taskState, taskOutcome, allResults, batchState,
    command, inputMode, cfgRules, optMinSeverity, cfgMinSeverity, cfgFilePatterns,
    inputFiles, rules, reviewFiles, reviewTasks, invoked, exitCode, cmdPhase,
    taskResults, completed, collected, reportPhase,
    fileContent, issues, issueIndex, currentContent, fileModified, fixLog, disk, fixPhase,
    fixRequest,
    nRuns, runCeiling, runs, runPhase,
    cliMaxConcurrency, configFile, loadedProvider, providerConfig, limitCeiling,
    configPhase,
    chunks, hunks, shown, diffPhase,
    storedRules, loadedRules, nAddFiles, generated, addPhase, addRun,
    discovered, reviewed, namedResults, fileIssuesMap, filesRead, filesWritten,
    pathCursor, pathPhase,
    retryState

extractVars == <<exResponse, exSchema, exOutcome, exPhase>>
retryVars == <<op, cfgMaxRetries, attempt, lastSessionId, lastError,
               invocations, errors, callState, callError, callValue>>
batchVars == <<optMaxConcurrency, cfgMaxConcurrency, nTasks, created, queue,
               activeCount, taskState, taskOutcome, allResults, batchState>>
commandVars == <<command, inputMode, cfgRules, optMinSeverity, cfgMinSeverity,
                 cfgFilePatterns, inputFiles, rules, reviewFiles, reviewTasks,
                 invoked, exitCode, cmdPhase>>
reportVars == <<taskResults, completed, collected, reportPhase>>
fixVars == <<fileContent, issues, issueIndex, currentContent, fileModified,
             fixLog, disk, fixPhase, fixRequest>>
invokeVars == <<nRuns, runCeiling, runs, runPhase>>
configVars == <<cliMaxConcurrency, configFile, loadedProvider, providerConfig,
                limitCeiling, configPhase>>
diffVars == <<chunks, hunks, shown, diffPhase>>
addVars == <<storedRules, loadedRules, nAddFiles, generated, addPhase, addRun>>
pathVars == <<discovered, reviewed, namedResults, fileIssuesMap, filesRead,
              filesWritten, pathCursor, pathPhase>>
ownVars == <<retryState>>
lateVars == <<addVars, pathVars, ownVars>>
otherVars == <<configVars, diffVars, lateVars>>
laterVars == <<commandVars, reportVars, fixVars, invokeVars, otherVars>>
coreVars == <<extractVars, retryVars, batchVars, commandVars, reportVars, fixVars,
              invokeVars>>
vars == <<extractVars, retryVars, batchVars, laterVars>>

(***************************************************************************)
(* Bounds of the model.                                                    *)
(***************************************************************************)
MaxLines == 2
MaxRetriesBound == 3
MaxTasks == 4
MaxConcurrencyBound == 2
MaxRules == 2
MaxResults == 1
MaxIssues == 2
MaxRuns == 3

(***************************************************************************)
(* JSON values.  A value is an atom, an array or an object; an object's    *)
(* scalar members are summarised by its tag, its array/object members are  *)
(* its kids.  The agent's result envelope is an object with the members    *)
(* type, subtype, session_id and result.                                   *)
(***************************************************************************)
NoContent == [form |-> "absent", val |-> <<>>, long |-> FALSE, endMsg |-> FALSE]
NoEnv == [type |-> "-", subtype |-> "-", sid |-> "-", content |-> NoContent]

Val(k, tag, kids) == [k |-> k, tag |-> tag, kids |-> kids, env |-> NoEnv]
Atom(tag) == Val("atom", tag, <<>>)
Arr(kids) == Val("arr", "-", kids)
Obj(tag, kids) == Val("obj", tag, kids)
EnvVal(type, subtype, sid, content) ==
    [k |-> "obj", tag |-> "env", kids |-> <<>>,
     env |-> [type |-> type, subtype |-> subtype, sid |-> sid, content |-> content]]

IsEnv(v) == v.k = "obj" /\ v.tag = "env"

\* JavaScript truthiness of a parsed JSON value: null, 0, false and "" are falsy.
Truthy(v) == ~(v.k = "atom" /\ v.tag = "a0")

RuleTags == {"rule_w", "rule_nosev", "rule_bad"}
FixTags == {"fix_ok", "fix_badrange", "fix_bad", "fix_fail"}
IssueTags == {"issue_ok", "issue_low", "issue_bad"}

LeafObjects ==
    {Obj(t, <<>>) : t \in RuleTags \cup FixTags \cup IssueTags \cup {"other"}}
Atoms == {Atom("a1"), Atom("a0")}
FlatArrays ==
    {Arr(<<>>), Arr(<<Atom("a1")>>), Arr(<<Obj("other", <<>>)>>),
     Arr(<<Obj("rule_w", <<>>)>>), Arr(<<Obj("rule_nosev", <<>>)>>),
     Arr(<<Obj("rule_bad", <<>>)>>),
     Arr(<<Obj("rule_w", <<>>), Obj("rule_nosev", <<>>)>>),
     Arr(<<Obj("issue_ok", <<>>)>>), Arr(<<Obj("issue_low", <<>>)>>),
     Arr(<<Obj("issue_bad", <<>>)>>)}
NestedObjects ==
    {Obj("other", <<Arr(<<Obj("other", <<>>)>>)>>),
     Obj("other", <<Obj("other", <<>>)>>),
     Obj("fix_ok", <<Arr(<<Obj("other", <<>>)>>)>>)}
DataValues == Atoms \cup LeafObjects \cup FlatArrays \cup NestedObjects

\* What the envelope's result member holds: a string whose text is
\*   json       exactly the JSON text of val
\*   fencedEsc  a ```json block with escaped newlines around the text of val
\*   fenced     a ```json block around the text of val
\*   embedded   prose around a {"success": ...} object val
\*   text       prose with no JSON in it
\*   cut        JSON text cut off before its end (endMsg: the parse error
\*              reads "Unexpected end of JSON input"; long: over 9000 chars)
\*   absent     no result member (or an empty string)
Content(form, val, long, endMsg) ==
    [form |-> form, val |-> val, long |-> long, endMsg |-> endMsg]
Contents ==
    {NoContent, Content("text", <<>>, FALSE, FALSE)}
    \cup {Content("cut", <<>>, l, m) : l \in BOOLEAN, m \in BOOLEAN}
    \cup {Content("json", <<v>>, FALSE, FALSE) :
            v \in {Arr(<<Obj("rule_w", <<>>)>>), Arr(<<Obj("rule_nosev", <<>>)>>),
                   Arr(<<Obj("rule_bad", <<>>)>>), Arr(<<>>), Atom("a0"),
                   Obj("fix_ok", <<>>), Obj("fix_badrange", <<>>), Obj("fix_bad", <<>>),
                   Arr(<<Obj("issue_ok", <<>>)>>), Arr(<<Obj("issue_low", <<>>)>>),
                   Arr(<<Obj("issue_bad", <<>>)>>)}}
    \cup {Content(f, <<v>>, FALSE, FALSE) :
            f \in {"fencedEsc", "fenced"},
            v \in {Arr(<<Obj("rule_w", <<>>)>>), Arr(<<Obj("rule_bad", <<>>)>>),
                   Obj("fix_ok", <<>>), Arr(<<Obj("issue_ok", <<>>)>>)}}
    \cup {Content("embedded", <<v>>, FALSE, FALSE) :
            v \in {Obj("fix_ok", <<>>), Obj("fix_bad", <<>>)}}

SessionIds == {"s1", "s2"}
RulesBadJson == Content("json", <<Arr(<<Obj("rule_bad", <<>>)>>)>>, FALSE, FALSE)
RulesGoodJson == Content("json", <<Arr(<<Obj("rule_w", <<>>)>>)>>, FALSE, FALSE)
ProseContent == Content("text", <<>>, FALSE, FALSE)
ResultEnvelopes ==
    {EnvVal("result", "success", sid, c) : sid \in {"-", "s1"}, c \in Contents}
    \cup {EnvVal("result", "success", "s2", c) : c \in {RulesBadJson, ProseContent}}
    \cup {EnvVal("result", "error_during_execution", sid, c) :
            sid \in {"-", "s1"}, c \in {NoContent, ProseContent, RulesGoodJson}}
OtherEnvelopes ==
    {EnvVal("other", "error_during_execution", "-", NoContent),
     EnvVal("other", "success", "s1", RulesGoodJson)}
Envelopes == ResultEnvelopes \cup OtherEnvelopes

AllValues == DataValues \cup Envelopes

(***************************************************************************)
(* JSON text as a sequence of tokens: brackets, braces and atoms.  The     *)
(* opening brace carries the object's scalar members.                      *)
(***************************************************************************)
Tok(t) == [t |-> t, tag |-> "-", env |-> NoEnv]
OpenBrace(v) == [t |-> "{", tag |-> v.tag, env |-> v.env]

RECURSIVE Serialize(_)
RECURSIVE SerializeAll(_)
Serialize(v) ==
    CASE v.k = "atom" -> <<[t |-> "a", tag |-> v.tag, env |-> NoEnv]>>
      [] v.k = "arr" -> <<Tok("[")>> \o SerializeAll(v.kids) \o <<Tok("]")>>
      [] v.k = "obj" -> <<OpenBrace(v)>> \o SerializeAll(v.kids) \o <<Tok("}")>>
SerializeAll(vs) ==
    IF vs = <<>> THEN <<>> ELSE Serialize(Head(vs)) \o SerializeAll(Tail(vs))

\* JSON.parse: <<v>> when the tokens are the text of the value v, <<>> when
\* JSON.parse throws.
SerTable == [v \in AllValues |-> Serialize(v)]
Parse(toks) ==
    IF \E v \in AllValues : SerTable[v] = toks
    THEN <<CHOOSE v \in AllValues : SerTable[v] = toks>>
    ELSE <<>>

(***************************************************************************)
(* Captured output: a sequence of lines.                                   *)
(***************************************************************************)
Line(lk, val) == [lk |-> lk, val |-> val]
DebugLine == Line("debug", <<>>)
BlankLine == Line("blank", <<>>)
TextLine == Line("text", <<>>)
JsonLine(v) == Line("json", <<v>>)

LineTokens(l) ==
    CASE l.lk = "json" -> Serialize(l.val[1])
      [] l.lk = "blank" -> <<>>
      [] OTHER -> <<[t |-> l.lk, tag |-> "-", env |-> NoEnv]>>

RECURSIVE RawTokens(_)
RawTokens(response) ==
    IF response = <<>> THEN <<>>
    ELSE LineTokens(Head(response)) \o RawTokens(Tail(response))

\* extract-json.ts 5-13: lines that are empty or start with a bracketed
\* severity prefix are dropped.
NonDebugLines(response) ==
    SelectSeq(response, LAMBDA l : l.lk # "blank" /\ l.lk # "debug")

CleanTokens(response) == RawTokens(NonDebugLines(response))

(***************************************************************************)
(* The regular expressions of the fallback step, on tokens.                *)
(***************************************************************************)
SubTok(toks, i, j) == SubSeq(toks, i, j)

\* /\[\s*\{[\s\S]*\}\s*\]/: leftmost "[" directly followed by "{", then
\* greedily to the last "}" directly followed by "]".
ArrayEnds(toks, i) ==
    {j \in (i + 2)..(Len(toks) - 1) : toks[j].t = "}" /\ toks[j + 1].t = "]"}
ArrayStarts(toks) ==
    {i \in 1..(Len(toks) - 1) :
        toks[i].t = "[" /\ toks[i + 1].t = "{" /\ ArrayEnds(toks, i) # {}}
Max(S) == CHOOSE x \in S : \A y \in S : y <= x
Min(S) == CHOOSE x \in S : \A y \in S : x <= y
ArrayMatch(toks) ==
    IF ArrayStarts(toks) = {} THEN <<>>
    ELSE LET i == Min(ArrayStarts(toks))
         IN  <<SubTok(toks, i, Max(ArrayEnds(toks, i)) + 1)>>

\* /\{\s*[\s\S]*\s*\}/: leftmost "{", then greedily to the last "}".
ObjectEnds(toks, i) == {j \in (i + 1)..Len(toks) : toks[j].t = "}"}
ObjectStarts(toks) ==
    {i \in 1..Len(toks) : toks[i].t = "{" /\ ObjectEnds(toks, i) # {}}
ObjectMatch(toks) ==
    IF ObjectStarts(toks) = {} THEN <<>>
    ELSE LET i == Min(ObjectStarts(toks))
         IN  <<SubTok(toks, i, Max(ObjectEnds(toks, i)))>>

(***************************************************************************)
(* Schemas (valibot).  v.parse returns the validated value: unknown        *)
(* members are dropped and an absent severity becomes "warning".           *)
(***************************************************************************)
Schemas == {"none", "rules", "fix"}

\* A review result: issue_ok has every member well typed with line and
\* column at least 1, issue_low has every member well typed with line or
\* column 0, issue_bad lacks a member.  The schema's line and column are
\* v.number() with no minimum.
ValidIssue(v) == v.k = "obj" /\ v.tag \in {"issue_ok", "issue_low"}

ValidRule(v) == v.k = "obj" /\ v.tag \in {"rule_w", "rule_nosev"}
ValidFix(v) == v.k = "obj" /\ v.tag \in {"fix_ok", "fix_badrange", "fix_fail"}

VParse(schema, v) ==
    CASE schema = "rules" ->
            IF v.k = "arr" /\ Len(v.kids) >= 1 /\ \A i \in 1..Len(v.kids) : ValidRule(v.kids[i])
            THEN <<Arr([i \in 1..Len(v.kids) |-> Obj("rule_w", <<>>)])>>
            ELSE <<>>
      [] schema = "fix" ->
            IF ValidFix(v) THEN <<Obj(v.tag, <<>>)>> ELSE <<>>
      [] OTHER -> <<v>>

(***************************************************************************)
(* Errors.  kind names the failure; the flags and the response are the     *)
(* members the code attaches to the Error object.                          *)
(***************************************************************************)
Err(kind, isExec, hasValidation, isTrunc, response) ==
    [kind |-> kind, isExecutionError |-> isExec, validationError |-> hasValidation,
     isTruncated |-> isTrunc, response |-> response]
NoError == Err("none", FALSE, FALSE, FALSE, <<>>)

Returned(v) == [status |-> "ok", value |-> <<v>>, err |-> NoError]
Thrown(e) == [status |-> "error", value |-> <<>>, err |-> e]
NoOutcome == [status |-> "none", value |-> <<>>, err |-> NoError]

\* extract-json.ts 34-40
ExecutionErrorOf(response) == Err("exec", TRUE, FALSE, FALSE, response)
\* extract-json.ts 58-61 and 197-200
FormatErrorOf(response) == Err("format", FALSE, TRUE, FALSE, response)
\* extract-json.ts 71-74
TruncationErrorOf(response) == Err("truncated", FALSE, FALSE, TRUE, response)
\* extract-json.ts 174-182
ExtractionErrorOf(response) == Err("extraction", FALSE, FALSE, FALSE, response)

\* extract-json.ts 130-140: the stand-in FixResult of strategy 5.
FailureResponse == Obj("fix_fail", <<>>)

\* JSON.parse of the envelope's result string.
ParseContent(c) == IF c.form = "json" THEN c.val ELSE <<>>

\* extract-json.ts 20-29: the cleaned text parsed as one result envelope.
ResultObjectOf(parsed) ==
    IF parsed # <<>> /\ Truthy(parsed[1]) /\ parsed[1].env.type = "result"
    THEN parsed ELSE <<>>
ResultObject(response) == ResultObjectOf(Parse(CleanTokens(response)))

IsSet(json) == json # <<>> /\ Truthy(json[1])

\* extract-json.ts 43-78: the result string parsed directly.  A validation
\* failure thrown at 61 is caught at 68 and falls through with jsonResult set.
DirectParsed(c, direct, schema, response) ==
    CASE c.form = "absent" -> [done |-> NoOutcome, json |-> <<>>]
      [] IsSet(direct) /\ VParse(schema, direct[1]) # <<>> ->
            [done |-> Returned(VParse(schema, direct[1])[1]), json |-> direct]
      [] direct # <<>> -> [done |-> NoOutcome, json |-> direct]
      [] c.form = "cut" /\ c.long /\ c.endMsg ->
            [done |-> Thrown(TruncationErrorOf(response)), json |-> <<>>]
      [] OTHER -> [done |-> NoOutcome, json |-> <<>>]
DirectStep(c, schema, response) == DirectParsed(c, ParseContent(c), schema, response)

\* extract-json.ts 84-93: code block with escaped newlines (tried whether or
\* not jsonResult is set).
Strategy1(c, json) == IF c.form = "fencedEsc" THEN c.val ELSE json
\* extract-json.ts 95-105: regular code block.
Strategy2(c, json) == IF ~IsSet(json) /\ c.form = "fenced" THEN c.val ELSE json
\* extract-json.ts 107-117: a {"success": ...} object in the content.
Strategy3(c, json) == IF ~IsSet(json) /\ c.form = "embedded" THEN c.val ELSE json
\* extract-json.ts 119-126: the whole content as JSON.
Strategy4(c, json) ==
    IF ~IsSet(json) /\ ParseContent(c) # <<>> THEN ParseContent(c) ELSE json
\* extract-json.ts 128-141: the stand-in failure response.
Strategy5(json) == IF ~IsSet(json) THEN <<FailureResponse>> ELSE json

\* extract-json.ts 80-144: the strategies on the content string.
Strategies(c, json) ==
    IF c.form = "absent" THEN json
    ELSE Strategy5(Strategy4(c, Strategy3(c, Strategy2(c, Strategy1(c, json)))))

\* extract-json.ts 147-170: array pattern, then object pattern, on the cleaned text.
ParsedOr(match, json) ==
    IF match # <<>> /\ Parse(match[1]) # <<>> THEN Parse(match[1]) ELSE json
ArrayStep(toks, json) == IF IsSet(json) THEN json ELSE ParsedOr(ArrayMatch(toks), json)
ObjectStep(toks, json) == IF IsSet(json) THEN json ELSE ParsedOr(ObjectMatch(toks), json)
Fallback(toks, json) == ObjectStep(toks, ArrayStep(toks, json))

\* extract-json.ts 173-207
Finish(json, schema, response) ==
    IF ~IsSet(json) THEN Thrown(ExtractionErrorOf(response))
    ELSE IF VParse(schema, json[1]) = <<>> THEN Thrown(FormatErrorOf(response))
    ELSE Returned(VParse(schema, json[1])[1])

\* extract-json.ts 42-145 and on: an envelope that is no execution error.
ExtractEnvelope(c, d, schema, response) ==
    IF d.done # NoOutcome THEN d.done
    ELSE Finish(Fallback(CleanTokens(response), Strategies(c, d.json)), schema, response)

\* Variant: the execution-error subtype is not looked at.
ExtractFrom_NoSubtypeCheck(ro, schema, response) ==
    IF ro = <<>>
    THEN Finish(Fallback(CleanTokens(response), <<>>), schema, response)
    ELSE ExtractEnvelope(ro[1].env.content,
                         DirectStep(ro[1].env.content, schema, response),
                         schema, response)

\* extract-json.ts 31-40, then the envelope or the fallback.
ExtractFrom(ro, schema, response) ==
    IF ro # <<>> /\ ro[1].env.subtype = "error_during_execution"
    THEN Thrown(ExecutionErrorOf(response))
    ELSE IF ro = <<>>
    THEN Finish(Fallback(CleanTokens(response), <<>>), schema, response)
    ELSE ExtractEnvelope(ro[1].env.content,
                         DirectStep(ro[1].env.content, schema, response),
                         schema, response)

ExtractJsonFromResponse(response, schema) ==
    ExtractFrom(ResultObject(response), schema, response)

(***************************************************************************)
(* Captured outputs considered: up to MaxLines lines, one of them any JSON *)
(* document of the universe, the others log lines, prose or a small        *)
(* document; and the empty output.                                         *)
(***************************************************************************)
RichLines == {JsonLine(v) : v \in AllValues}
SimpleLines == {DebugLine, TextLine, JsonLine(Arr(<<Obj("rule_w", <<>>)>>))}
ResponsesOfLen(k) ==
    {[i \in 1..k |-> IF i = p THEN r ELSE f[i]] :
        p \in 1..k, r \in RichLines \cup {BlankLine}, f \in [1..k -> SimpleLines]}
Responses == {<<>>} \cup UNION {ResponsesOfLen(k) : k \in 1..MaxLines}

(***************************************************************************)
(* Idle values of the groups of variables.                                 *)
(***************************************************************************)
ExtractIdle ==
    /\ exResponse = <<>>
    /\ exSchema = "none"
    /\ exOutcome = NoOutcome
    /\ exPhase = "idle"

RetryIdle ==
    /\ op = "none"
    /\ cfgMaxRetries = 0
    /\ attempt = 0
    /\ lastSessionId = "-"
    /\ lastError = NoError
    /\ invocations = <<>>
    /\ errors = <<>>
    /\ callState = "idle"
    /\ callError = NoError
    /\ callValue = <<>>

BatchIdle ==
    /\ optMaxConcurrency = 0
    /\ cfgMaxConcurrency = 0
    /\ nTasks = 0
    /\ created = 0
    /\ queue = <<>>
    /\ activeCount = 0
    /\ taskState = <<>>
    /\ taskOutcome = <<>>
    /\ allResults = <<>>
    /\ batchState = "idle"

CommandIdle ==
    /\ command = "none"
    /\ inputMode = "none"
    /\ cfgRules = <<>>
    /\ optMinSeverity = "-"
    /\ cfgMinSeverity = "info"
    /\ cfgFilePatterns = <<>>
    /\ inputFiles = <<>>
    /\ rules = <<>>
    /\ reviewFiles = <<>>
    /\ reviewTasks = <<>>
    /\ invoked = 0
    /\ exitCode = -1
    /\ cmdPhase = "idle"

ReportIdle ==
    /\ taskResults = <<>>
    /\ completed = {}
    /\ collected = <<>>
    /\ reportPhase = "idle"

FixIdle ==
    /\ fileContent = <<>>
    /\ issues = <<>>
    /\ issueIndex = 0
    /\ currentContent = <<>>
    /\ fileModified = FALSE
    /\ fixLog = <<>>
    /\ disk = <<>>
    /\ fixPhase = "idle"
    /\ fixRequest = <<>>

InvokeIdle ==
    /\ nRuns = 0
    /\ runCeiling = 0
    /\ runs = <<>>
    /\ runPhase = "idle"

ConfigIdle ==
    /\ cliMaxConcurrency = <<>>
    /\ configFile = <<>>
    /\ loadedProvider = <<>>
    /\ providerConfig = <<>>
    /\ limitCeiling = <<>>
    /\ configPhase = "idle"

DiffIdle ==
    /\ chunks = <<>>
    /\ hunks = <<>>
    /\ shown = <<>>
    /\ diffPhase = "idle"

AddIdle ==
    /\ storedRules = <<>>
    /\ loadedRules = <<>>
    /\ nAddFiles = 0
    /\ generated = <<>>
    /\ addPhase = "idle"
    /\ addRun = 0

PathIdle ==
    /\ discovered = {}
    /\ reviewed = {}
    /\ namedResults = <<>>
    /\ fileIssuesMap = <<>>
    /\ filesRead = {}
    /\ filesWritten = {}
    /\ pathCursor = 0
    /\ pathPhase = "idle"

OwnIdle == retryState = <<>>

LateIdle == AddIdle /\ PathIdle /\ OwnIdle
OtherIdle == ConfigIdle /\ DiffIdle /\ LateIdle
LaterIdle == CommandIdle /\ ReportIdle /\ FixIdle /\ InvokeIdle /\ OtherIdle
CoreIdle ==
    /\ ExtractIdle /\ RetryIdle /\ BatchIdle /\ CommandIdle /\ ReportIdle
    /\ FixIdle /\ InvokeIdle

\* extractReviewResults: the first line that parses to an object of type
\* "result"; its result string parsed, bare or from a code block; any
\* failure gives the empty list.
IsResultObject(parsed) ==
    parsed # <<>> /\ parsed[1] # Atom("a0") /\ parsed[1].env.type = "result"

RECURSIVE FirstResultLine(_)
FirstResultLine(lines) ==
    IF lines = <<>> THEN <<>>
    ELSE IF IsResultObject(Parse(LineTokens(Head(lines))))
    THEN Parse(LineTokens(Head(lines)))
    ELSE FirstResultLine(Tail(lines))

ContentArray(c) == IF c.form \in {"json", "fenced"} THEN c.val[1] ELSE Arr(<<>>)
ValidatedIssues(arr) ==
    IF arr.k = "arr" /\ \A i \in 1..Len(arr.kids) : ValidIssue(arr.kids[i])
    THEN arr.kids ELSE <<>>
ReviewResultsOf(ro) ==
    IF ro = <<>> THEN <<>> ELSE ValidatedIssues(ContentArray(ro[1].env.content))
ExtractReviewResults(response) ==
    ReviewResultsOf(FirstResultLine(NonDebugLines(response)))

(***************************************************************************)
(* SpecExtract: extractJsonFromResponse applied to one captured output.    *)
(***************************************************************************)
InitExtract ==
    /\ exResponse \in Responses
    /\ exSchema \in Schemas
    /\ exOutcome = NoOutcome
    /\ exPhase = "input"
    /\ RetryIdle
    /\ BatchIdle
    /\ LaterIdle

Extract ==
    /\ exPhase = "input"
    /\ exOutcome' = ExtractJsonFromResponse(exResponse, exSchema)
    /\ exPhase' = "done"
    /\ UNCHANGED <<exResponse, exSchema, retryVars, batchVars, laterVars>>

\* reviewFile and reviewDiff after the invocation: extractReviewResults on
\* the captured text.
ReviewExtract ==
    /\ exPhase = "input"
    /\ exOutcome' = [status |-> "ok", value |-> ExtractReviewResults(exResponse),
                     err |-> NoError]
    /\ exPhase' = "reviewed"
    /\ UNCHANGED <<exResponse, exSchema, retryVars, batchVars, laterVars>>

NextExtract == Extract \/ ReviewExtract

SpecExtract == InitExtract /\ [][NextExtract]_vars

(***************************************************************************)
(* The provider (ClaudeProvider).                                          *)
(***************************************************************************)
Ops == {"generateRules", "reviewFile", "reviewDiff", "fixIssue"}

DefaultMaxRetries == 3

\* this.config.maxRetries || 3; a configured 0 stands for an unset value.
EffectiveMaxRetries(cfg) == IF cfg = 0 THEN DefaultMaxRetries ELSE cfg

\* runClaude settles once: the process could not start, exited nonzero, was
\* killed on timeout, or closed with code 0 and its captured output.
ProcessErrorKinds == {"process_start", "process_exit", "process_timeout"}
ProcessError(kind) == Err(kind, FALSE, FALSE, FALSE, <<>>)
RunFailed(kind) == [ok |-> FALSE, response |-> <<>>, err |-> ProcessError(kind)]
RunOutput(response) == [ok |-> TRUE, response |-> response, err |-> NoError]

\* Errors that the taxonomy calls ExecutionError.
IsExecutionKind(e) == e.kind \in ProcessErrorKinds \cup {"exec"}

\* An invocation: the continuity token passed with --resume ("-" for none)
\* and the prompt sent.
OriginalInvocation ==
    [sessionId |-> "-", prompt |-> "original", validation |-> FALSE, about |-> "none"]

\* createErrorCorrectionPrompt: built from the validation message and issue
\* list when the error has them, else from the error's message.
CreateErrorCorrectionPrompt(error, sessionId) ==
    [sessionId |-> sessionId, prompt |-> "correction",
     validation |-> error.validationError, about |-> error.kind]

\* Variant: the correction prompt is sent without --resume.
RunClaudeWithRetry_NoResume(sessionId, error) ==
    IF sessionId # "-" /\ error # NoError /\ ~error.isExecutionError
    THEN CreateErrorCorrectionPrompt(error, "-")
    ELSE OriginalInvocation

RunClaudeWithRetry(sessionId, error) ==
    IF sessionId # "-" /\ error # NoError /\ ~error.isExecutionError
    THEN CreateErrorCorrectionPrompt(error, sessionId)
    ELSE OriginalInvocation

\* session_id of a parsed value, "-" when absent or falsy.
SessionOf(parsed) == IF parsed = <<>> THEN "-" ELSE parsed[1].env.sid

LineSession(l) == IF l.lk = "blank" THEN "-" ELSE SessionOf(Parse(LineTokens(l)))

RECURSIVE FirstLineSession(_)
FirstLineSession(lines) ==
    IF lines = <<>> THEN "-"
    ELSE IF LineSession(Head(lines)) # "-" THEN LineSession(Head(lines))
    ELSE FirstLineSession(Tail(lines))

\* The whole response parsed, else line by line; "-" when no token is found.
RecoverFrom(whole, response) ==
    IF whole # <<>> /\ whole[1] # Atom("a0") THEN SessionOf(whole)
    ELSE FirstLineSession(response)
RecoverSession(response) == RecoverFrom(Parse(RawTokens(response)), response)

\* The catch block of the retry loop: the token kept for the next attempt.
FoundOr(found, current) == IF found # "-" THEN found ELSE current
\* Variant: an execution error does not clear the token.
NextSessionId_NoClear(current, error) ==
    IF error.response # <<>> THEN FoundOr(RecoverSession(error.response), current)
    ELSE current

NextSessionId(current, error) ==
    IF error.isExecutionError THEN "-"
    ELSE IF error.response # <<>> THEN FoundOr(RecoverSession(error.response), current)
    ELSE current

\* One attempt's result: the process outcome, then extraction.
AttemptResult(o, schema) ==
    IF ~o.ok THEN Thrown(o.err) ELSE ExtractJsonFromResponse(o.response, schema)

\* extractFixResult: the FixResult schema, then endLine >= startLine; every
\* failure is rethrown as a new Error carrying validationError and response.
CheckFixResult(r, response) ==
    IF r.status = "ok" /\ r.value[1].tag # "fix_badrange" THEN r
    ELSE Thrown(Err(IF r.status = "ok" THEN "range" ELSE r.err.kind,
                    FALSE, TRUE, FALSE, response))
ExtractFixResult(response) ==
    CheckFixResult(ExtractJsonFromResponse(response, "fix"), response)

(***************************************************************************)
(* SpecRetry: one provider call and its attempts.                          *)
(***************************************************************************)
ResultLine(subtype, sid, c) == JsonLine(EnvVal("result", subtype, sid, c))
RetryResponses ==
    {<<>>,
     <<TextLine>>,
     <<ResultLine("success", "s1", RulesGoodJson)>>,
     <<ResultLine("success", "s1", RulesBadJson)>>,
     <<ResultLine("success", "s2", RulesBadJson)>>,
     <<ResultLine("success", "-", RulesBadJson)>>,
     <<DebugLine, ResultLine("success", "s1", RulesBadJson)>>,
     <<TextLine, ResultLine("success", "s2", ProseContent)>>,
     <<ResultLine("error_during_execution", "s1", NoContent)>>,
     <<ResultLine("success", "s1", Content("cut", <<>>, TRUE, TRUE))>>,
     <<ResultLine("success", "s1", Content("json", <<Obj("fix_ok", <<>>)>>, FALSE, FALSE))>>,
     <<ResultLine("success", "s1", Content("json", <<Obj("fix_badrange", <<>>)>>, FALSE, FALSE))>>,
     <<ResultLine("success", "s1", Content("json", <<Arr(<<Obj("issue_ok", <<>>)>>)>>, FALSE, FALSE))>>,
     <<ResultLine("success", "s1", Content("json", <<Arr(<<Obj("issue_low", <<>>)>>)>>, FALSE, FALSE))>>,
     <<ResultLine("success", "s1", Content("json", <<Arr(<<Obj("issue_bad", <<>>)>>)>>, FALSE, FALSE))>>}
RunOutcomes ==
    {RunFailed(k) : k \in ProcessErrorKinds} \cup {RunOutput(r) : r \in RetryResponses}

InitRetry ==
    /\ op \in Ops
    /\ cfgMaxRetries \in 0..MaxRetriesBound
    /\ attempt = 1
    /\ lastSessionId = "-"
    /\ lastError = NoError
    /\ invocations = <<>>
    /\ errors = <<>>
    /\ callState = "running"
    /\ callError = NoError
    /\ callValue = <<>>
    /\ ExtractIdle
    /\ BatchIdle
    /\ LaterIdle

\* Variant: on exhaustion the error of the attempt before is thrown.
GenerateRulesSettle_StaleError(r) ==
    IF r.status = "ok"
    THEN /\ callState' = "returned"
         /\ callValue' = r.value
         /\ UNCHANGED <<attempt, lastSessionId, lastError, errors, callError>>
    ELSE /\ lastError' = r.err
         /\ lastSessionId' = NextSessionId(lastSessionId, r.err)
         /\ errors' = Append(errors, r.err)
         /\ IF attempt = EffectiveMaxRetries(cfgMaxRetries)
            THEN /\ callState' = "thrown"
                 /\ callError' = lastError
                 /\ UNCHANGED attempt
            ELSE /\ attempt' = attempt + 1
                 /\ UNCHANGED <<callState, callError>>
         /\ UNCHANGED callValue

\* The retry loop of generateRules after an attempt: return on success,
\* else the catch block (272-339).
GenerateRulesSettle(r) ==
    IF r.status = "ok"
    THEN /\ callState' = "returned"
         /\ callValue' = r.value
         /\ UNCHANGED <<attempt, lastSessionId, lastError, errors, callError>>
    ELSE /\ lastError' = r.err
         /\ lastSessionId' = NextSessionId(lastSessionId, r.err)
         /\ errors' = Append(errors, r.err)
         /\ IF attempt = EffectiveMaxRetries(cfgMaxRetries)
            THEN /\ callState' = "thrown"
                 /\ callError' = r.err
                 /\ UNCHANGED attempt
            ELSE /\ attempt' = attempt + 1
                 /\ UNCHANGED <<callState, callError>>
         /\ UNCHANGED callValue

\* One pass of the retry loop of generateRules: the invocation, extraction
\* against the rules schema, and the catch block.
GenerateRulesAttempt ==
    /\ op = "generateRules"
    /\ callState = "running"
    /\ attempt <= EffectiveMaxRetries(cfgMaxRetries)
    /\ invocations' = Append(invocations, RunClaudeWithRetry(lastSessionId, lastError))
    /\ \E o \in RunOutcomes : GenerateRulesSettle(AttemptResult(o, "rules"))
    /\ UNCHANGED <<op, cfgMaxRetries, extractVars, batchVars, laterVars>>

\* The end of a call that makes one invocation.
SingleSettle(r) ==
    IF r.status = "ok"
    THEN /\ callState' = "returned"
         /\ callValue' = r.value
         /\ UNCHANGED <<errors, callError>>
    ELSE /\ callState' = "thrown"
         /\ callError' = r.err
         /\ errors' = Append(errors, r.err)
         /\ UNCHANGED callValue

ReviewResult(o) ==
    IF o.ok
    THEN [status |-> "ok", value |-> ExtractReviewResults(o.response), err |-> NoError]
    ELSE Thrown(o.err)

\* reviewFile and reviewDiff: one invocation, then extractReviewResults.
ReviewAttempt ==
    /\ op \in {"reviewFile", "reviewDiff"}
    /\ callState = "running"
    /\ invocations' = Append(invocations, OriginalInvocation)
    /\ \E o \in RunOutcomes : SingleSettle(ReviewResult(o))
    /\ UNCHANGED <<op, cfgMaxRetries, attempt, lastSessionId, lastError,
                   extractVars, batchVars, laterVars>>

FixResultOf(o) == IF o.ok THEN ExtractFixResult(o.response) ELSE Thrown(o.err)

\* fixIssue: one invocation, then extractFixResult.
FixIssueAttempt ==
    /\ op = "fixIssue"
    /\ callState = "running"
    /\ invocations' = Append(invocations, OriginalInvocation)
    /\ \E o \in RunOutcomes : SingleSettle(FixResultOf(o))
    /\ UNCHANGED <<op, cfgMaxRetries, attempt, lastSessionId, lastError,
                   extractVars, batchVars, laterVars>>

NextRetry == GenerateRulesAttempt \/ ReviewAttempt \/ FixIssueAttempt

SpecRetry == InitRetry /\ [][NextRetry]_vars

(***************************************************************************)
(* SpecBatch: the review batch of the review and fix commands.  Every      *)
(* (file, rule) pair is a task handed to a limiter made with the           *)
(* concurrency ceiling; the command then awaits all tasks.                 *)
(***************************************************************************)
DefaultMaxConcurrency == 5

\* options.maxConcurrency || providerConfig?.maxConcurrency || 5; 0 stands
\* for an unset value.
MaxConcurrency(opt, cfg) ==
    IF opt # 0 THEN opt ELSE IF cfg # 0 THEN cfg ELSE DefaultMaxConcurrency

Concurrency == MaxConcurrency(optMaxConcurrency, cfgMaxConcurrency)

Tasks == 1..nTasks

\* What a provider call of a task ends with: a list of issues, an empty
\* list, or a terminal failure.
ProviderOutcomes == {"results", "empty", "failed"}

InitBatch ==
    /\ optMaxConcurrency \in 0..MaxConcurrencyBound
    /\ cfgMaxConcurrency \in 0..MaxConcurrencyBound
    /\ nTasks \in 1..MaxTasks
    /\ created = 0
    /\ queue = <<>>
    /\ activeCount = 0
    /\ taskState = [t \in 1..nTasks |-> "none"]
    /\ taskOutcome = [t \in 1..nTasks |-> "none"]
    /\ allResults = <<>>
    /\ batchState = "creating"
    /\ ExtractIdle
    /\ RetryIdle
    /\ LaterIdle

\* process.exit(1) in the command's catch block ends everything.
Alive == batchState \in {"creating", "awaiting", "resolved"}

\* Variant: the limiter compares with <= instead of <.
SlotFree_OffByOne(count) == count <= Concurrency

\* The limiter's test for a free slot.
SlotFree(count) == count < Concurrency

\* The limiter's resumeNext, with the active count it starts from.
ResumeNext(count, ts) ==
    IF SlotFree(count) /\ queue # <<>>
    THEN /\ queue' = Tail(queue)
         /\ taskState' = [ts EXCEPT ![Head(queue)] = "dequeued"]
         /\ activeCount' = count + 1
    ELSE /\ queue' = queue
         /\ taskState' = ts
         /\ activeCount' = count

\* reviewTasks.push(limit(async () => {...})): the task joins the queue.
CreateTask ==
    /\ batchState = "creating"
    /\ created < nTasks
    /\ created' = created + 1
    /\ queue' = Append(queue, created + 1)
    /\ taskState' = [taskState EXCEPT ![created + 1] = "queued"]
    /\ UNCHANGED <<optMaxConcurrency, cfgMaxConcurrency, nTasks, activeCount,
                   taskOutcome, allResults, batchState, extractVars, retryVars, laterVars>>

\* The limiter's deferred step after a task joined the queue.
EnqueueTick ==
    /\ Alive
    /\ SlotFree(activeCount)
    /\ queue # <<>>
    /\ ResumeNext(activeCount, taskState)
    /\ UNCHANGED <<optMaxConcurrency, cfgMaxConcurrency, nTasks, created,
                   taskOutcome, allResults, batchState, extractVars, retryVars, laterVars>>

\* A dequeued task's function is called: its provider call starts.
StartTask(t) ==
    /\ Alive
    /\ taskState[t] = "dequeued"
    /\ taskState' = [taskState EXCEPT ![t] = "running"]
    /\ UNCHANGED <<optMaxConcurrency, cfgMaxConcurrency, nTasks, created, queue,
                   activeCount, taskOutcome, allResults, batchState,
                   extractVars, retryVars, laterVars>>

\* Variant: the task's function has no try/catch.
TaskBody_NoCatch(outcome) ==
    [pushed |-> outcome = "results", rejected |-> outcome = "failed"]

\* The task's function: results are pushed; a failure is caught and warned
\* about.
TaskBody(outcome) ==
    [pushed |-> outcome = "results", rejected |-> FALSE]

\* allResults.push(...results): one synchronous call appends the whole list.
Push_Assign(collection, results) == results
Push(collection, results) == collection \o results

TaskEnd(t, outcome, body) ==
    /\ taskOutcome' = [taskOutcome EXCEPT ![t] = outcome]
    /\ allResults' = IF body.pushed THEN Push(allResults, <<t>>) ELSE allResults
    /\ taskState' = [taskState EXCEPT ![t] = IF body.rejected THEN "rejected" ELSE "resolved"]

\* The provider call of a running task settles and the task's function ends.
SettleTask(t) ==
    /\ Alive
    /\ taskState[t] = "running"
    /\ \E outcome \in ProviderOutcomes : TaskEnd(t, outcome, TaskBody(outcome))
    /\ UNCHANGED <<optMaxConcurrency, cfgMaxConcurrency, nTasks, created, queue,
                   activeCount, batchState, extractVars, retryVars, laterVars>>

\* The limiter's next() after the task's function ended, however it ended.
ReleaseSlot(t) ==
    /\ Alive
    /\ taskState[t] \in {"resolved", "rejected"}
    /\ ResumeNext(activeCount - 1,
                  [taskState EXCEPT ![t] = IF @ = "resolved" THEN "done" ELSE "done_rejected"])
    /\ UNCHANGED <<optMaxConcurrency, cfgMaxConcurrency, nTasks, created,
                   taskOutcome, allResults, batchState, extractVars, retryVars, laterVars>>

\* await Promise.all(reviewTasks) is reached.
AwaitAll ==
    /\ batchState = "creating"
    /\ created = nTasks
    /\ batchState' = "awaiting"
    /\ UNCHANGED <<optMaxConcurrency, cfgMaxConcurrency, nTasks, created, queue,
                   activeCount, taskState, taskOutcome, allResults,
                   extractVars, retryVars, laterVars>>

Fulfilled(t) == taskState[t] \in {"resolved", "done"}
Rejected(t) == taskState[t] \in {"rejected", "done_rejected"}

\* Promise.all settles: rejected by the first rejected task, else fulfilled
\* when every task is.
BatchSettle ==
    /\ batchState = "awaiting"
    /\ (\E t \in Tasks : Rejected(t)) \/ (\A t \in Tasks : Fulfilled(t))
    /\ batchState' = IF \E t \in Tasks : Rejected(t) THEN "failed" ELSE "resolved"
    /\ UNCHANGED <<optMaxConcurrency, cfgMaxConcurrency, nTasks, created, queue,
                   activeCount, taskState, taskOutcome, allResults,
                   extractVars, retryVars, laterVars>>

\* What the review command reports once the batch has resolved: no results
\* is the clean outcome (exit status 0), results are reported with status 2.
ReviewOutcome(results) == IF results = <<>> THEN "clean" ELSE "issues"

NextBatch ==
    \/ CreateTask
    \/ EnqueueTick
    \/ \E t \in Tasks : StartTask(t)
    \/ \E t \in Tasks : SettleTask(t)
    \/ \E t \in Tasks : ReleaseSlot(t)
    \/ AwaitAll
    \/ BatchSettle

SpecBatch == InitBatch /\ [][NextBatch]_vars

(***************************************************************************)
(* Severity levels (utils/severity.ts).                                    *)
(***************************************************************************)
SEVERITY_ORDER == <<"critical", "error", "warning", "info">>
Severities == {SEVERITY_ORDER[i] : i \in 1..Len(SEVERITY_ORDER)}

\* Array.prototype.indexOf: the 0-based index of the first occurrence, or -1.
IndexOf(seq, x) ==
    IF \E i \in 1..Len(seq) : seq[i] = x
    THEN (CHOOSE i \in 1..Len(seq) : seq[i] = x /\ \A j \in 1..(i - 1) : seq[j] # x) - 1
    ELSE -1

GetSeverityPriority(severity) ==
    IF IndexOf(SEVERITY_ORDER, severity) = -1 THEN 0
    ELSE Len(SEVERITY_ORDER) - IndexOf(SEVERITY_ORDER, severity)

MeetsMinSeverity(issueSeverity, minSeverity) ==
    GetSeverityPriority(issueSeverity) >= GetSeverityPriority(minSeverity)

\* rule.severity || 'warning'
RuleSeverity(rule) == IF rule.severity = "absent" THEN "warning" ELSE rule.severity

\* Variant: a rule without a severity is taken as info.
FilterRulesBySeverity_DefaultInfo(rs, minSeverity) ==
    SelectSeq(rs, LAMBDA r :
        MeetsMinSeverity(IF r.severity = "absent" THEN "info" ELSE r.severity, minSeverity))

FilterRulesBySeverity(rs, minSeverity) ==
    SelectSeq(rs, LAMBDA r : MeetsMinSeverity(RuleSeverity(r), minSeverity))

(***************************************************************************)
(* File paths and glob patterns.  A path is summarised by its top          *)
(* directory and its extension; a pattern is a directory pattern           *)
(* (e.g. the glob for node_modules at any depth) or an extension pattern.  *)
(***************************************************************************)
Path(top, ext) == [top |-> top, ext |-> ext]
DirPattern(name) == [kind |-> "dir", name |-> name]
ExtPattern(ext) == [kind |-> "ext", name |-> ext]

Minimatch(filePath, pattern) ==
    IF pattern.kind = "dir" THEN filePath.top = pattern.name
    ELSE filePath.ext = pattern.name

\* review.ts 22-31
DefaultExcludePatterns ==
    <<DirPattern("node_modules"), DirPattern("dist"), DirPattern(".git"),
      DirPattern("build"), DirPattern("coverage"), DirPattern(".next"),
      DirPattern(".nuxt"), DirPattern("vendor")>>

\* review.ts 56
DefaultExtensions ==
    {".js", ".ts", ".jsx", ".tsx", ".py", ".java", ".go", ".rb", ".php", ".c", ".cpp", ".cs"}

\* The exclude list a configuration without one gets from the schema.
SchemaExcludePatterns ==
    <<DirPattern("node_modules"), DirPattern("dist"), DirPattern(".git"),
      DirPattern("build"), DirPattern("coverage")>>

MatchesAny(filePath, patterns) ==
    \E i \in 1..Len(patterns) : Minimatch(filePath, patterns[i])

\* The filter callback of filterDiffFilesByPatterns.
KeepDiffFile(filePath, filePatterns) ==
    IF MatchesAny(filePath, DefaultExcludePatterns \o filePatterns.exclude) THEN FALSE
    ELSE IF Len(filePatterns.include) > 0 THEN MatchesAny(filePath, filePatterns.include)
    ELSE filePath.ext \in DefaultExtensions

\* filePatterns is <<>> when the configuration has no filePatterns.
FilterDiffFilesByPatterns(diffFiles, filePatterns) ==
    IF filePatterns = <<>> THEN diffFiles
    ELSE SelectSeq(diffFiles, LAMBDA f : KeepDiffFile(f, filePatterns[1]))

(***************************************************************************)
(* SpecCommand: the review and fix commands from their start to the        *)
(* provider calls of their review tasks.                                   *)
(***************************************************************************)
Rule(id, severity) == [id |-> id, severity |-> severity]

\* Rule sets of a configuration: rule i has id i.
RuleSets ==
    UNION {[1..n -> Severities \cup {"absent"}] : n \in 0..MaxRules}
ConfigRules(sevs) == [i \in 1..Len(sevs) |-> Rule(i, sevs[i])]

\* Files named by a diff or found by file discovery.
PathUniverse == <<Path("src", ".ts"), Path("", ".md"), Path("node_modules", ".js")>>
Pick(mask) == SelectSeq(PathUniverse, LAMBDA f : \E i \in mask : PathUniverse[i] = f)
FileLists == {Pick(mask) : mask \in SUBSET (1..Len(PathUniverse))}

\* config.filePatterns: <<>> when absent, else include and exclude lists.
FilePatternsOf(include, exclude) == <<[include |-> include, exclude |-> exclude]>>
FilePatternConfigs ==
    {<<>>}
    \cup {FilePatternsOf(inc, exc) :
            inc \in {<<>>, <<ExtPattern(".ts")>>, <<ExtPattern(".md")>>},
            exc \in {SchemaExcludePatterns, <<DirPattern("src")>>}}

\* options.minSeverity || config.minSeverity || 'info'; "-" is an unset value.
MinSeverityOf(opt, cfg) == IF opt # "-" THEN opt ELSE IF cfg # "-" THEN cfg ELSE "info"

\* The nested loops that create the tasks: every file with every rule.
ExpandTasks(files, rs) ==
    [k \in 1..(Len(files) * Len(rs)) |->
        [file |-> files[((k - 1) \div Len(rs)) + 1], rule |-> rs[((k - 1) % Len(rs)) + 1]]]

InitCommand ==
    /\ ReportIdle /\ FixIdle /\ InvokeIdle /\ OtherIdle
    /\ command \in {"review", "fix"}
    /\ inputMode \in (IF command = "review" THEN {"path", "stdin"} ELSE {"path"})
    /\ cfgRules \in {ConfigRules(sevs) : sevs \in RuleSets}
    /\ optMinSeverity \in (IF command = "review" THEN Severities \cup {"-"} ELSE {"-"})
    /\ cfgMinSeverity \in (IF optMinSeverity = "-" THEN {"info", "error"} ELSE {"info"})
    /\ cfgFilePatterns \in (IF inputMode = "stdin" THEN FilePatternConfigs ELSE {<<>>})
    /\ inputFiles \in FileLists
    /\ rules = <<>>
    /\ reviewFiles = <<>>
    /\ reviewTasks = <<>>
    /\ invoked = 0
    /\ exitCode = -1
    /\ cmdPhase = "start"
    /\ ExtractIdle
    /\ RetryIdle
    /\ BatchIdle

\* process.exit(code), or a return from the command before any task (code 0).
Exit(code, rs) ==
    /\ rules' = rs
    /\ exitCode' = code
    /\ cmdPhase' = "exited"
    /\ UNCHANGED <<reviewFiles, reviewTasks>>

\* The tasks are created and handed to the limiter.
CreateTasks(files, rs) ==
    /\ rules' = rs
    /\ reviewFiles' = files
    /\ reviewTasks' = ExpandTasks(files, rs)
    /\ cmdPhase' = "reviewing"
    /\ UNCHANGED exitCode

\* review.ts 121-177: the diff read from stdin.
ReviewDiff(filtered, rs) ==
    IF Len(inputFiles) = 0 THEN Exit(1, rs)
    ELSE IF Len(filtered) = 0 THEN Exit(0, rs)
    ELSE CreateTasks(filtered, rs)

\* review.ts 178-211: the files found for the paths given.
ReviewPaths(rs) ==
    IF Len(inputFiles) = 0 THEN Exit(1, rs) ELSE CreateTasks(inputFiles, rs)

\* review.ts 66-211 with the rules left by the severity filter.
ReviewWith(rs) ==
    IF Len(cfgRules) = 0 THEN Exit(1, rs)
    ELSE IF Len(rs) = 0 THEN Exit(0, rs)
    ELSE IF inputMode = "stdin"
    THEN ReviewDiff(FilterDiffFilesByPatterns(inputFiles, cfgFilePatterns), rs)
    ELSE ReviewPaths(rs)

ReviewCommand ==
    /\ command = "review"
    /\ cmdPhase = "start"
    /\ ReviewWith(FilterRulesBySeverity(cfgRules, MinSeverityOf(optMinSeverity, cfgMinSeverity)))
    /\ UNCHANGED <<command, inputMode, cfgRules, optMinSeverity, cfgMinSeverity,
                   cfgFilePatterns, inputFiles, invoked,
                   extractVars, retryVars, batchVars, reportVars, fixVars, invokeVars, otherVars>>

\* fix.ts 38-86: the files are checked first, then the rules, which are used
\* as configured.
FixCommand ==
    /\ command = "fix"
    /\ cmdPhase = "start"
    /\ IF Len(inputFiles) = 0 THEN Exit(1, cfgRules)
       ELSE IF Len(cfgRules) = 0 THEN Exit(1, cfgRules)
       ELSE CreateTasks(inputFiles, cfgRules)
    /\ UNCHANGED <<command, inputMode, cfgRules, optMinSeverity, cfgMinSeverity,
                   cfgFilePatterns, inputFiles, invoked,
                   extractVars, retryVars, batchVars, reportVars, fixVars, invokeVars, otherVars>>

\* The limiter calls the next task's function: provider.reviewFile or
\* provider.reviewDiff is invoked for its file and rule.
InvokeTask ==
    /\ cmdPhase = "reviewing"
    /\ invoked < Len(reviewTasks)
    /\ invoked' = invoked + 1
    /\ UNCHANGED <<command, inputMode, cfgRules, optMinSeverity, cfgMinSeverity,
                   cfgFilePatterns, inputFiles, rules, reviewFiles, reviewTasks,
                   exitCode, cmdPhase, extractVars, retryVars, batchVars, reportVars, fixVars, invokeVars, otherVars>>

\* Promise.all(reviewTasks) has settled.
TasksSettled ==
    /\ cmdPhase = "reviewing"
    /\ invoked = Len(reviewTasks)
    /\ cmdPhase' = "reviewed"
    /\ UNCHANGED <<command, inputMode, cfgRules, optMinSeverity, cfgMinSeverity,
                   cfgFilePatterns, inputFiles, rules, reviewFiles, reviewTasks,
                   invoked, exitCode, extractVars, retryVars, batchVars, reportVars, fixVars, invokeVars, otherVars>>

NextCommand == ReviewCommand \/ FixCommand \/ InvokeTask \/ TasksSettled

SpecCommand == InitCommand /\ [][NextCommand]_vars

(***************************************************************************)
(* SpecReport: the results of a review batch.  Every task returns a fixed  *)
(* list of results; the tasks complete in any order, each appending its    *)
(* results to the collection; when all have settled the collection is      *)
(* sorted in place and reported.                                           *)
(***************************************************************************)
Result(file, line, column, ruleId) ==
    [file |-> file, line |-> line, column |-> column, ruleId |-> ruleId]

\* The positions the provider reports in this model.
Positions ==
    { <<"a.ts", 3, 1>>, <<"a.ts", 3, 2>>, <<"a.ts", 1, 5>>, <<"B.ts", 1, 1>> }

\* String.prototype.localeCompare orders by the locale's collation, in
\* which a lower-case letter precedes the upper-case letters that follow it
\* in the alphabet: "a.ts" is before "B.ts".
CollationRank(file) == IF file = "a.ts" THEN 1 ELSE 2
LocaleCompare(x, y) == CollationRank(x) - CollationRank(y)

\* The comparator of allResults.sort.
Compare_IgnoreColumn(a, b) ==
    IF a.file # b.file THEN LocaleCompare(a.file, b.file)
    ELSE a.line - b.line

Compare(a, b) ==
    IF a.file # b.file THEN LocaleCompare(a.file, b.file)
    ELSE IF a.line # b.line THEN a.line - b.line
    ELSE a.column - b.column

\* Array.prototype.sort is stable: x goes after the elements that do not
\* compare greater than it.
RECURSIVE InsertSorted(_, _)
InsertSorted(sorted, x) ==
    IF sorted = <<>> THEN <<x>>
    ELSE IF Compare(sorted[Len(sorted)], x) <= 0 THEN Append(sorted, x)
    ELSE Append(InsertSorted(SubSeq(sorted, 1, Len(sorted) - 1), x), sorted[Len(sorted)])

RECURSIVE SortResults(_)
SortResults(results) ==
    IF results = <<>> THEN <<>>
    ELSE InsertSorted(SortResults(SubSeq(results, 1, Len(results) - 1)),
                      results[Len(results)])

\* The lists of positions a task can report, of up to n results.
RECURSIVE PositionLists(_)
PositionLists(n) ==
    IF n = 0 THEN {<<>>}
    ELSE LET shorter == PositionLists(n - 1)
         IN  shorter \cup {Append(l, p) : l \in {m \in shorter : Len(m) = n - 1},
                                           p \in Positions}

\* The results of the task of rule r that reports the positions ps.
ResultsOf(ps, r) == [i \in 1..Len(ps) |-> Result(ps[i][1], ps[i][2], ps[i][3], r)]

InitReport ==
    /\ ExtractIdle /\ RetryIdle /\ BatchIdle /\ CommandIdle /\ FixIdle /\ InvokeIdle /\ OtherIdle
    /\ \E n \in 1..MaxRules : \E lists \in [1..n -> PositionLists(MaxResults)] :
            taskResults = [t \in 1..n |-> ResultsOf(lists[t], t)]
    /\ completed = {}
    /\ collected = <<>>
    /\ reportPhase = "running"

\* A task ends: allResults.push(...results).
TaskCompletes(t) ==
    /\ reportPhase = "running"
    /\ t \notin completed
    /\ completed' = completed \cup {t}
    /\ collected' = collected \o taskResults[t]
    /\ UNCHANGED <<taskResults, reportPhase, extractVars, retryVars, batchVars, commandVars, fixVars, invokeVars, otherVars>>

\* Promise.all has settled: without results the command reports success,
\* otherwise it sorts the collection and reports it.
Report ==
    /\ reportPhase = "running"
    /\ completed = DOMAIN taskResults
    /\ IF collected = <<>>
       THEN reportPhase' = "clean" /\ collected' = collected
       ELSE reportPhase' = "sorted" /\ collected' = SortResults(collected)
    /\ UNCHANGED <<taskResults, completed, extractVars, retryVars, batchVars, commandVars, fixVars, invokeVars, otherVars>>

NextReport == (\E t \in DOMAIN taskResults : TaskCompletes(t)) \/ Report

SpecReport == InitReport /\ [][NextReport]_vars

(***************************************************************************)
(* SpecFix: the fix loop of the fix command on one file.  The content of   *)
(* the file is its sequence of lines; the issues found in it are sorted by *)
(* line, descending, and fixed one after the other on the running          *)
(* content; the file is written when the loop ends.                        *)
(***************************************************************************)
FileContents == {<<"l1", "l2", "l3">>}
FixRules == <<Rule(1, "warning")>>

Issue(line, ruleId) == [line |-> line, ruleId |-> ruleId]

\* The issues of a file, in the order the review collected them.
RECURSIVE IssueLists(_, _)
IssueLists(content, n) ==
    IF n = 0 THEN {<<>>}
    ELSE LET shorter == IssueLists(content, n - 1)
         IN  shorter \cup {Append(l, Issue(line, ruleId)) :
                                l \in {m \in shorter : Len(m) = n - 1},
                                line \in 1..Len(content), ruleId \in {1, 2}}

\* issues.sort((a, b) => b.line - a.line), a stable sort.
RECURSIVE InsertIssue(_, _)
InsertIssue(sorted, x) ==
    IF sorted = <<>> THEN <<x>>
    ELSE IF x.line - sorted[Len(sorted)].line <= 0 THEN Append(sorted, x)
    ELSE Append(InsertIssue(SubSeq(sorted, 1, Len(sorted) - 1), x), sorted[Len(sorted)])

RECURSIVE SortIssues(_)
SortIssues(list) ==
    IF list = <<>> THEN <<>>
    ELSE InsertIssue(SortIssues(SubSeq(list, 1, Len(list) - 1)), list[Len(list)])

\* A FixResult that passed FixResultSchema: startLine and endLine are
\* integers of at least 1, fixedContent is a string (its lines: at least one).
FixResult(success, startLine, endLine, fixedLines) ==
    [success |-> success, startLine |-> startLine, endLine |-> endLine,
     fixedLines |-> fixedLines]

\* The agent's answers to a fix request on the content: no usable answer
\* (the invocation or the extraction fails), or a FixResult.
NoAnswer == [kind |-> "error", fix |-> FixResult(FALSE, 1, 1, <<"x">>)]
Answer(fix) == [kind |-> "fix", fix |-> fix]
Clip(i, n) == IF i > n THEN n ELSE i
Answers(content) ==
    {NoAnswer, Answer(FixResult(FALSE, 1, 1, <<"x">>)), Answer(FixResult(FALSE, 2, 1, <<"x">>)),
     Answer(FixResult(TRUE, 2, 1, <<"x">>))}
    \cup UNION {{Answer(FixResult(TRUE, s, e, ls)) :
                    e \in {s, s + 1}, ls \in {<<"x">>, <<"x", "x">>}} :
                 s \in 1..(Len(content) + 2)}
    \cup {Answer(FixResult(TRUE, s, s, <<content[s]>>)) : s \in 1..Len(content)}

\* Array.prototype.splice(start, deleteCount, ...items) on a copy.
Splice(lines, start, deleteCount, items) ==
    SubSeq(lines, 1, Clip(start, Len(lines))) \o items
        \o SubSeq(lines, Clip(start, Len(lines)) + Clip(deleteCount, Len(lines) - Clip(start, Len(lines))) + 1,
                  Len(lines))

ApplyFixToContent(content, fixResult) ==
    IF ~fixResult.success THEN content
    ELSE Splice(content, fixResult.startLine - 1,
                fixResult.endLine - fixResult.startLine + 1, fixResult.fixedLines)

\* provider.fixIssue on an answer: the FixResult that extractFixResult
\* returns, or a thrown error.
FixIssueResult_NoRangeCheck(answer) ==
    IF answer.kind = "error" THEN [thrown |-> TRUE, fix |-> answer.fix]
    ELSE [thrown |-> FALSE, fix |-> answer.fix]

FixIssueResult(answer) ==
    IF answer.kind = "error" THEN [thrown |-> TRUE, fix |-> answer.fix]
    ELSE IF answer.fix.endLine < answer.fix.startLine THEN [thrown |-> TRUE, fix |-> answer.fix]
    ELSE [thrown |-> FALSE, fix |-> answer.fix]

\* fileModified after a successful fix that gave newContent.
FileModifiedAfter_OnSuccess(modified, content, newContent) == TRUE
FileModifiedAfter(modified, content, newContent) == modified \/ newContent # content

InitFix ==
    /\ ExtractIdle /\ RetryIdle /\ BatchIdle /\ CommandIdle /\ ReportIdle /\ InvokeIdle /\ OtherIdle
    /\ fileContent \in FileContents
    /\ issues \in IssueLists(fileContent, MaxIssues) \ {<<>>}
    /\ issueIndex = 0
    /\ currentContent = fileContent
    /\ fileModified = FALSE
    /\ fixLog = <<>>
    /\ disk = fileContent
    /\ fixPhase = "grouped"
    /\ fixRequest = <<>>

\* The loop reaches the file: its issues are sorted in place.
StartFile ==
    /\ fixPhase = "grouped"
    /\ issues' = SortIssues(issues)
    /\ issueIndex' = 1
    /\ fixPhase' = "fixing"
    /\ UNCHANGED <<fileContent, currentContent, fileModified, fixLog, disk, fixRequest,
                   extractVars, retryVars, batchVars, commandVars, reportVars, invokeVars, otherVars>>

Logged(kind, issue, answer, before) ==
    Append(fixLog, [kind |-> kind, issue |-> issue, fix |-> answer.fix, before |-> before])

\* The fix of one issue, given the outcome of provider.fixIssue.
FixOutcome(issue, answer, result, newContent) ==
    IF result.thrown
    THEN /\ fixLog' = Logged(IF answer.kind = "error" THEN "error" ELSE "rejected",
                             issue, answer, currentContent)
         /\ UNCHANGED <<currentContent, fileModified>>
    ELSE IF ~result.fix.success
    THEN /\ fixLog' = Logged("unsuccessful", issue, answer, currentContent)
         /\ UNCHANGED <<currentContent, fileModified>>
    ELSE IF newContent # currentContent
    THEN /\ fixLog' = Logged("applied", issue, answer, currentContent)
         /\ currentContent' = newContent
         /\ fileModified' = FileModifiedAfter(fileModified, currentContent, newContent)
    ELSE /\ fixLog' = Logged("noop", issue, answer, currentContent)
         /\ currentContent' = currentContent
         /\ fileModified' = FileModifiedAfter(fileModified, currentContent, newContent)

HasRule(issue) == \E i \in 1..Len(FixRules) : FixRules[i].id = issue.ruleId

\* The content handed to provider.fixIssue, given the content read from the
\* file and the running content.
RequestContent_Original(original, current) == original
RequestContent(original, current) == current

\* A turn of the loop reaches await provider.fixIssue(...): the request for
\* the issue is in flight.
RequestFix ==
    /\ fixPhase = "fixing"
    /\ issueIndex <= Len(issues)
    /\ fixRequest = <<>>
    /\ HasRule(issues[issueIndex])
    /\ fixRequest' = <<[issue |-> issueIndex,
                        content |-> RequestContent(fileContent, currentContent)]>>
    /\ UNCHANGED <<fileContent, issues, issueIndex, currentContent, fileModified,
                   fixLog, disk, fixPhase,
                   extractVars, retryVars, batchVars, commandVars, reportVars, invokeVars, otherVars>>

\* The turn of the loop ends: an issue without a rule is skipped; otherwise
\* the request in flight settles and its fix, if any, is applied.
FixIssue ==
    /\ fixPhase = "fixing"
    /\ issueIndex <= Len(issues)
    /\ issueIndex' = issueIndex + 1
    /\ fixRequest' = <<>>
    /\ IF ~HasRule(issues[issueIndex])
       THEN /\ fixLog' = Logged("norule", issues[issueIndex], NoAnswer, currentContent)
            /\ UNCHANGED <<currentContent, fileModified>>
       ELSE /\ fixRequest # <<>>
            /\ \E answer \in Answers(fixRequest[1].content) :
                  FixOutcome(issues[issueIndex], answer, FixIssueResult(answer),
                             ApplyFixToContent(currentContent, FixIssueResult(answer).fix))
    /\ UNCHANGED <<fileContent, issues, disk, fixPhase,
                   extractVars, retryVars, batchVars, commandVars, reportVars, invokeVars, otherVars>>

\* The loop over the issues has ended: writeFile if fileModified.
FinishFile ==
    /\ fixPhase = "fixing"
    /\ issueIndex > Len(issues)
    /\ disk' = IF fileModified THEN currentContent ELSE disk
    /\ fixPhase' = IF fileModified THEN "written" ELSE "unwritten"
    /\ UNCHANGED <<fileContent, issues, issueIndex, currentContent, fileModified, fixLog,
                   fixRequest, extractVars, retryVars, batchVars, commandVars, reportVars, invokeVars, otherVars>>

NextFix == StartFile \/ RequestFix \/ FixIssue \/ FinishFile

SpecFix == InitFix /\ [][NextFix]_vars

(***************************************************************************)
(* SpecInvoke: the agent processes of a batch (runClaude).  Every task of  *)
(* the batch makes one invocation once the limiter lets it start: a timer  *)
(* is set, the process is spawned, and the promise settles on the          *)
(* process's error or close event or when the timer fires.  The agent may  *)
(* never close by itself.                                                  *)
(***************************************************************************)
\* One invocation: its child process, its timer, the resolved flag, the
\* promise of runClaude, and the invocations whose timers signalled the
\* child.
Run(child, timeout, resolved, promise, signalledBy) ==
    [child |-> child, timeout |-> timeout, resolved |-> resolved,
     promise |-> promise, signalledBy |-> signalledBy]

NotStarted == Run("unspawned", "unset", FALSE, "pending", {})

InitInvoke ==
    /\ ExtractIdle /\ RetryIdle /\ BatchIdle /\ CommandIdle /\ ReportIdle /\ FixIdle
    /\ OtherIdle
    /\ nRuns \in 1..MaxRuns
    /\ runCeiling \in 1..MaxConcurrencyBound
    /\ runs = [i \in 1..nRuns |-> NotStarted]
    /\ runPhase = "running"

\* The invocations that hold a slot of the limiter.
InFlightRuns == {i \in 1..nRuns : runs[i].child # "unspawned" /\ runs[i].promise = "pending"}

\* A promise settles once: later calls of resolve and reject are ignored.
Settle(promise, outcome) == IF promise = "pending" THEN outcome ELSE promise

\* The limiter starts a task: setTimeout, then spawn.  A process that cannot
\* be started emits 'error' before any timer can fire; its 'close' follows.
Spawn(i) ==
    /\ runPhase = "running"
    /\ runs[i].child = "unspawned"
    /\ Cardinality(InFlightRuns) < runCeiling
    /\ \/ runs' = [runs EXCEPT ![i] = Run("running", "armed", FALSE, "pending", {})]
       \/ runs' = [runs EXCEPT ![i] = Run("nostart", "armed", FALSE, "start_error", {})]
    /\ UNCHANGED <<nRuns, runCeiling, runPhase,
                   extractVars, retryVars, batchVars, commandVars, reportVars, fixVars, otherVars>>

\* The exit codes a child can close with: a process that did not start has
\* a negative code, a signalled one has none or its own.
CloseCodes(run) ==
    IF run.child = "nostart" THEN {"nonzero"}
    ELSE {"zero", "nonzero"}

\* claude.on('close'): the timer is cleared, resolved is set, and the
\* promise is resolved with the output or rejected with the exit code.
CloseEvent(i, code) ==
    /\ runs[i].child \in {"running", "nostart"}
    /\ code \in CloseCodes(runs[i])
    /\ runs' = [runs EXCEPT ![i] =
                    Run("closed",
                        IF @.timeout = "armed" THEN "cleared" ELSE @.timeout,
                        TRUE,
                        Settle(@.promise, IF code = "zero" THEN "output" ELSE "exit_error"),
                        @.signalledBy)]
    /\ UNCHANGED <<nRuns, runCeiling, runPhase,
                   extractVars, retryVars, batchVars, commandVars, reportVars, fixVars, otherVars>>

\* The children that the timer of invocation i signals.
KillTargets_All(i) == {j \in 1..nRuns : runs[j].child \in {"running", "nostart"}}
KillTargets(i) == {i}

\* What the timer's callback makes of the promise.
TimeoutSettles_KillOnly(promise) == promise
TimeoutSettles(promise) == Settle(promise, "timeout_error")

\* The timer of invocation i fires: if (!resolved) the child is sent SIGTERM
\* and the promise is rejected with the timeout error.
TimerFires(i) ==
    /\ runs[i].timeout = "armed"
    /\ runs' = [j \in 1..nRuns |->
                    Run(runs[j].child,
                        IF j = i THEN "fired" ELSE runs[j].timeout,
                        runs[j].resolved,
                        IF j = i /\ ~runs[i].resolved THEN TimeoutSettles(runs[j].promise)
                        ELSE runs[j].promise,
                        IF ~runs[i].resolved /\ j \in KillTargets(i)
                        THEN runs[j].signalledBy \cup {i} ELSE runs[j].signalledBy)]
    /\ UNCHANGED <<nRuns, runCeiling, runPhase,
                   extractVars, retryVars, batchVars, commandVars, reportVars, fixVars, otherVars>>

\* Promise.all(reviewTasks) resolves: the results are aggregated.
Aggregate ==
    /\ runPhase = "running"
    /\ \A i \in 1..nRuns : runs[i].promise # "pending"
    /\ runPhase' = "aggregated"
    /\ UNCHANGED <<nRuns, runCeiling, runs,
                   extractVars, retryVars, batchVars, commandVars, reportVars, fixVars, otherVars>>

NextInvoke ==
    \/ \E i \in 1..nRuns : Spawn(i)
    \/ \E i \in 1..nRuns : \E code \in {"zero", "nonzero"} : CloseEvent(i, code)
    \/ \E i \in 1..nRuns : TimerFires(i)
    \/ Aggregate

SpecInvoke == InitInvoke /\ [][NextInvoke]_vars

\* The event loop runs every ready callback: a task the limiter can start
\* is started, an armed timer fires unless it is cleared, and the
\* continuation of Promise.all runs.  Nothing makes the agent close.
SpecInvokeFair ==
    /\ SpecInvoke
    /\ \A i \in 1..MaxRuns : WF_vars(i \in 1..nRuns /\ Spawn(i))
    /\ \A i \in 1..MaxRuns : WF_vars(i \in 1..nRuns /\ TimerFires(i))
    /\ WF_vars(Aggregate)

(***************************************************************************)
(* SpecConfig: the --max-concurrency option and the configuration file     *)
(* resolved to the provider configuration (ProviderFactory) and to the     *)
(* ceiling given to the limiter (reviewCommand, fixCommand).               *)
(***************************************************************************)
\* JavaScript numbers and undefined, as far as the configuration tells them
\* apart: an integer, a number with a fractional part (n its integer part),
\* NaN and undefined.
Num(n) == [t |-> "int", n |-> n]
Fraction(n) == [t |-> "fraction", n |-> n]
NaN == [t |-> "nan", n |-> 0]
Undefined == [t |-> "undefined", n |-> 0]

\* The text after --max-concurrency: no option, a word, digits, or digits
\* with a decimal part.
ArgText(form, n) == [form |-> form, n |-> n]
ArgTexts ==
    {ArgText("absent", 0), ArgText("word", 0), ArgText("decimal", 2)}
    \cup {ArgText("integer", n) : n \in {-3, 0, 1, 20, 21, 100}}

\* parseInt as commander applies it: the leading integer of the text.
ParseInt(arg) ==
    CASE arg.form = "absent" -> Undefined
      [] arg.form = "word" -> NaN
      [] OTHER -> Num(arg.n)

\* The configuration file: missing, without a provider section, or with one
\* whose maxConcurrency and executionInterval are as written.
ConfigFile(exists, hasProvider, maxConcurrency, executionInterval) ==
    [exists |-> exists, hasProvider |-> hasProvider,
     maxConcurrency |-> maxConcurrency, executionInterval |-> executionInterval]
ConfigFiles ==
    {ConfigFile(FALSE, FALSE, Undefined, Undefined),
     ConfigFile(TRUE, FALSE, Undefined, Undefined)}
    \cup {ConfigFile(TRUE, TRUE, mc, ei) :
            mc \in {Undefined, Num(0), Num(1), Num(20), Num(21), Fraction(2)},
            ei \in {Undefined, Num(-1), Num(0), Num(10), Num(1000), Num(1001),
                    Fraction(10)}}

DefaultExecutionInterval == 10
ConcurrencyRange == 1..20

\* ProviderConfigSchema.maxConcurrency: optional, an integer from 1 to 20.
ValidMaxConcurrency(x) ==
    x = Undefined \/ (x.t = "int" /\ x.n \in ConcurrencyRange)

Provider(status, maxConcurrency, executionInterval) ==
    [status |-> status, maxConcurrency |-> maxConcurrency,
     executionInterval |-> executionInterval]
NoProvider == Provider("absent", Undefined, Undefined)

\* v.parse(ProviderConfigSchema, ...): maxConcurrency checked and defaulted;
\* the schema has no executionInterval entry, and an object schema drops the
\* keys it does not know.
ParseProviderConfig(file) ==
    IF ValidMaxConcurrency(file.maxConcurrency)
    THEN Provider("ok",
                  IF file.maxConcurrency = Undefined THEN Num(DefaultMaxConcurrency)
                  ELSE file.maxConcurrency,
                  Undefined)
    ELSE Provider("invalid", Undefined, Undefined)

\* ConfigManager.loadConfig: no file, or a file that fails validation, gives
\* the default configuration, which has no provider section.
ConfigProvider(loaded) == IF loaded.status = "ok" THEN <<loaded>> ELSE <<>>

\* JavaScript a || b on numbers: undefined, NaN and 0 are falsy.
Falsy(x) == x.t \in {"undefined", "nan"} \/ (x.t = "int" /\ x.n = 0)
Or(a, b) == IF Falsy(a) THEN b ELSE a

\* options.maxConcurrency || providerConfig?.maxConcurrency || 5
MaxConcurrencyOf(cli, provider) ==
    Or(cli, Or(IF provider = <<>> THEN Undefined ELSE provider[1].maxConcurrency,
               Num(DefaultMaxConcurrency)))

\* pLimit(concurrency): a TypeError unless concurrency is a positive integer.
PLimit(concurrency) ==
    IF concurrency.t = "int" /\ concurrency.n > 0
    THEN [status |-> "limit", concurrency |-> concurrency]
    ELSE [status |-> "throws", concurrency |-> concurrency]

\* ProviderFactory.getProviderConfig: the defaults, then the file's provider
\* section, then the command line.
GetProviderConfigOf(cli, provider) ==
    [maxConcurrency |->
        IF cli # Undefined THEN cli
        ELSE IF provider # <<>> THEN provider[1].maxConcurrency
        ELSE Num(DefaultMaxConcurrency),
     executionInterval |->
        IF provider # <<>> /\ provider[1].executionInterval # Undefined
        THEN provider[1].executionInterval
        ELSE Num(DefaultExecutionInterval)]

InitConfig ==
    /\ CoreIdle
    /\ DiffIdle
    /\ LateIdle
    /\ cliMaxConcurrency \in {ParseInt(arg) : arg \in ArgTexts}
    /\ configFile \in ConfigFiles
    /\ loadedProvider = <<>>
    /\ providerConfig = <<>>
    /\ limitCeiling = <<>>
    /\ configPhase = "start"

LoadConfig ==
    /\ configPhase = "start"
    /\ loadedProvider' =
          <<IF configFile.exists /\ configFile.hasProvider
            THEN ParseProviderConfig(configFile) ELSE NoProvider>>
    /\ configPhase' = "loaded"
    /\ UNCHANGED <<cliMaxConcurrency, configFile, providerConfig, limitCeiling,
                   coreVars, diffVars, lateVars>>

GetProviderConfig ==
    /\ configPhase = "loaded"
    /\ providerConfig' =
          <<GetProviderConfigOf(cliMaxConcurrency, ConfigProvider(loadedProvider[1]))>>
    /\ configPhase' = "provider"
    /\ UNCHANGED <<cliMaxConcurrency, configFile, loadedProvider, limitCeiling,
                   coreVars, diffVars, lateVars>>

CreateLimit ==
    /\ configPhase = "provider"
    /\ limitCeiling' =
          <<PLimit(MaxConcurrencyOf(cliMaxConcurrency,
                                    ConfigProvider(loadedProvider[1])))>>
    /\ configPhase' = "limited"
    /\ UNCHANGED <<cliMaxConcurrency, configFile, loadedProvider, providerConfig,
                   coreVars, diffVars, lateVars>>

NextConfig == LoadConfig \/ GetProviderConfig \/ CreateLimit

SpecConfig == InitConfig /\ [][NextConfig]_vars

(***************************************************************************)
(* SpecDiff: the chunks parse-git-diff gives for one file of a unified     *)
(* diff, turned into hunks by parseDiff and shown by formatDiffForReview.  *)
(* An absent line number (undefined) is 0.                                 *)
(***************************************************************************)
MaxHunks == 2
MaxHunkLines == 2

ChangeTypes == {"AddedLine", "DeletedLine", "UnchangedLine"}

\* The k-th hunk header of the file: @@ -oldStart,n +newStart,m @@.
HunkStartsAt(k) ==
    {<<10 * (k - 1) + 1, 10 * (k - 1) + 1>>, <<10 * (k - 1) + 3, 10 * (k - 1) + 5>>}

Change(type, lineBefore, lineAfter) ==
    [type |-> type, lineBefore |-> lineBefore, lineAfter |-> lineAfter]

\* parse-git-diff: an added line carries lineAfter, a deleted line
\* lineBefore, an unchanged line both, counted from the hunk header.
RECURSIVE Changes(_, _, _)
Changes(types, before, after) ==
    IF types = <<>> THEN <<>>
    ELSE <<Change(Head(types),
                  IF Head(types) = "AddedLine" THEN 0 ELSE before,
                  IF Head(types) = "DeletedLine" THEN 0 ELSE after)>>
         \o Changes(Tail(types),
                    IF Head(types) = "AddedLine" THEN before ELSE before + 1,
                    IF Head(types) = "DeletedLine" THEN after ELSE after + 1)

Chunk(start, types) ==
    [oldStart |-> start[1], newStart |-> start[2],
     changes |-> Changes(types, start[1], start[2])]

TypeLists == UNION {[1..n -> ChangeTypes] : n \in 1..MaxHunkLines}
ChunksAt(k) == {Chunk(st, ts) : st \in HunkStartsAt(k), ts \in TypeLists}
RECURSIVE ChunkListsOfLen(_)
ChunkListsOfLen(n) ==
    IF n = 0 THEN {<<>>}
    ELSE {Append(l, c) : l \in ChunkListsOfLen(n - 1), c \in ChunksAt(n)}

\* parseDiff 89-99: one DiffLine per change.
DiffLine(change) ==
    [type |-> CASE change.type = "AddedLine" -> "add"
                [] change.type = "DeletedLine" -> "delete"
                [] OTHER -> "context",
     oldLine |-> change.lineAfter,
     newLine |-> change.lineBefore]

\* parseDiff 84-100: one hunk per chunk.
Hunk(chunk) ==
    [oldStart |-> chunk.oldStart, newStart |-> chunk.newStart,
     lines |-> [j \in 1..Len(chunk.changes) |-> DiffLine(chunk.changes[j])]]

\* formatDiffForReview 119: line.newLine || line.oldLine || 0
LineNum(line) == IF line.newLine # 0 THEN line.newLine ELSE line.oldLine

InitDiff ==
    /\ CoreIdle
    /\ ConfigIdle
    /\ LateIdle
    /\ chunks \in UNION {ChunkListsOfLen(n) : n \in 1..MaxHunks}
    /\ hunks = <<>>
    /\ shown = <<>>
    /\ diffPhase = "input"

ParseDiff ==
    /\ diffPhase = "input"
    /\ hunks' = [h \in 1..Len(chunks) |-> Hunk(chunks[h])]
    /\ diffPhase' = "parsed"
    /\ UNCHANGED <<chunks, shown, coreVars, configVars, lateVars>>

FormatDiffForReview ==
    /\ diffPhase = "parsed"
    /\ shown' = [h \in 1..Len(hunks) |->
                    [j \in 1..Len(hunks[h].lines) |-> LineNum(hunks[h].lines[j])]]
    /\ diffPhase' = "formatted"
    /\ UNCHANGED <<chunks, hunks, coreVars, configVars, lateVars>>

NextDiff == ParseDiff \/ FormatDiffForReview

SpecDiff == InitDiff /\ [][NextDiff]_vars

(***************************************************************************)
(* The add command (SpecAdd): addCommand generates rules for every file    *)
(* under the limiter, awaits all of them, merges the generated rules into  *)
(* the rules of the loaded configuration and saves it.                     *)
(***************************************************************************)
MaxAddRuns == 2

\* The files the paths of the command line resolve to, in their order.
AddFiles == <<"src/a.ts", "src/b.ts">>

RuleIds == {"r1", "r2", "r3"}

\* A rule: its id and, standing for its other fields, the place in AddFiles
\* of the file it was generated from and its place in that file's list
\* (file 0: the rule was in the configuration before the first run).
StoredRule(id, file, pos) == [id |-> id, file |-> file, pos |-> pos]

\* The rule lists of a file: no rule, one rule or two.
RuleListsOf(file) ==
    {<<>>} \cup {<<StoredRule(id, file, 1)>> : id \in RuleIds}
           \cup {<<StoredRule(ids[1], file, 1), StoredRule(ids[2], file, 2)>> :
                     ids \in RuleIds \X RuleIds}

UniqueIds(ruleList) ==
    \A i, j \in 1..Len(ruleList) : ruleList[i].id = ruleList[j].id => i = j

Pending == [status |-> "pending", rules |-> <<>>]

\* The outcomes of one generateRules call: at least one rule, or a terminal
\* failure after the retries.
GenerateOutcomes(file) ==
    {[status |-> "ok", rules |-> rs] : rs \in RuleListsOf(file) \ {<<>>}}
        \cup {[status |-> "failed", rules |-> <<>>]}

\* await Promise.all(...): rejects with the first rejection, resolves when
\* every call has resolved.
AfterSettle_AllSettled(gen) ==
    IF \A f \in DOMAIN gen : gen[f].status # "pending" THEN "merging"
    ELSE "generating"
AfterSettle(gen) ==
    IF \E f \in DOMAIN gen : gen[f].status = "failed" THEN "failed"
    ELSE IF \A f \in DOMAIN gen : gen[f].status = "ok" THEN "merging"
    ELSE "generating"

\* allNewRules.flat(): the lists in the order of the files.
RECURSIVE Flat(_, _)
Flat(gen, n) == IF n = 0 THEN <<>> ELSE Flat(gen, n - 1) \o gen[n].rules

\* existingRules.findIndex(rule => rule.id === id), 0 for not found.
FindIndex(ruleList, id) ==
    IF \E i \in 1..Len(ruleList) : ruleList[i].id = id
    THEN Min({i \in 1..Len(ruleList) : ruleList[i].id = id})
    ELSE 0

\* One turn of the merge loop.
MergeRule_Push(existingRules, newRule) == Append(existingRules, newRule)
MergeRule(existingRules, newRule) ==
    IF FindIndex(existingRules, newRule.id) > 0
    THEN [existingRules EXCEPT ![FindIndex(existingRules, newRule.id)] = newRule]
    ELSE Append(existingRules, newRule)

RECURSIVE MergeRules(_, _)
MergeRules(existingRules, newRules) ==
    IF newRules = <<>> THEN existingRules
    ELSE MergeRules(MergeRule(existingRules, Head(newRules)), Tail(newRules))

InitAdd ==
    /\ CoreIdle
    /\ ConfigIdle
    /\ DiffIdle
    /\ PathIdle
    /\ OwnIdle
    /\ storedRules \in {rs \in RuleListsOf(0) : UniqueIds(rs)}
    /\ loadedRules = storedRules
    /\ nAddFiles \in 1..Len(AddFiles)
    /\ generated = [f \in 1..nAddFiles |-> Pending]
    /\ addPhase = "generating"
    /\ addRun = 1

\* The generateRules call of file f settles.
GenerateRulesSettles(f) ==
    /\ addPhase = "generating"
    /\ generated[f] = Pending
    /\ \E outcome \in GenerateOutcomes(f) :
          /\ generated' = [generated EXCEPT ![f] = outcome]
          /\ addPhase' = AfterSettle(generated')
    /\ UNCHANGED <<storedRules, loadedRules, nAddFiles, addRun,
                   coreVars, configVars, diffVars, pathVars, ownVars>>

\* The merge loop on the loaded rules and saveConfig.
MergeAndSave ==
    /\ addPhase = "merging"
    /\ storedRules' = MergeRules(loadedRules, Flat(generated, nAddFiles))
    /\ addPhase' = "saved"
    /\ UNCHANGED <<loadedRules, nAddFiles, generated, addRun,
                   coreVars, configVars, diffVars, pathVars, ownVars>>

\* The command is run again: it loads the configuration as stored.
NextAddRun ==
    /\ addPhase \in {"saved", "failed"}
    /\ addRun < MaxAddRuns
    /\ addRun' = addRun + 1
    /\ loadedRules' = storedRules
    /\ nAddFiles' \in 1..Len(AddFiles)
    /\ generated' = [f \in 1..nAddFiles' |-> Pending]
    /\ addPhase' = "generating"
    /\ UNCHANGED <<storedRules, coreVars, configVars, diffVars, pathVars, ownVars>>

NextAdd ==
    \/ \E f \in 1..nAddFiles : GenerateRulesSettles(f)
    \/ MergeAndSave
    \/ NextAddRun

SpecAdd == InitAdd /\ [][NextAdd]_vars

(***************************************************************************)
(* The files of the fix command (SpecPaths): the discovered files are      *)
(* reviewed, the results are grouped by the file each of them names, and   *)
(* every group's file is read, fixed and written.                          *)
(***************************************************************************)
\* The files getFilePaths can discover, a file of the working directory that
\* it does not, and a path where there is no file.
Discoverable == {"src/a.ts", "src/b.ts"}
Outside == "package.json"
Missing == "src/gone.ts"
PathNames == Discoverable \cup {Outside, Missing}
OnDisk == PathNames \ {Missing}

\* The file of a result as extractReviewResults validates it (file:
\* v.string()): the path the agent wrote, whatever file was reviewed.
ExtractedFile(filePath, named) == named

\* The result lists of one review: no result, or one naming any path.
NamedResultsOf(filePath) ==
    {<<>>} \cup {<<[file |-> ExtractedFile(filePath, named), reviewedFile |-> filePath]>>
                    : named \in PathNames}

\* The place of the group of a file in fileIssuesMap, 0 for none.
GroupOf(map, file) ==
    IF \E i \in 1..Len(map) : map[i].filePath = file
    THEN CHOOSE i \in 1..Len(map) : map[i].filePath = file
    ELSE 0

InitPaths ==
    /\ CoreIdle
    /\ ConfigIdle
    /\ DiffIdle
    /\ AddIdle
    /\ OwnIdle
    /\ discovered \in SUBSET Discoverable \ {{}}
    /\ reviewed = {}
    /\ namedResults = <<>>
    /\ fileIssuesMap = <<>>
    /\ filesRead = {}
    /\ filesWritten = {}
    /\ pathCursor = 0
    /\ pathPhase = "reviewing"

\* Step 1: the file is read and reviewed, its results are pushed.
ReviewNamedFile(filePath) ==
    /\ pathPhase = "reviewing"
    /\ filePath \in discovered \ reviewed
    /\ \E results \in NamedResultsOf(filePath) :
          namedResults' = namedResults \o results
    /\ reviewed' = reviewed \cup {filePath}
    /\ filesRead' = filesRead \cup {filePath}
    /\ UNCHANGED <<discovered, fileIssuesMap, filesWritten, pathCursor, pathPhase,
                   coreVars, configVars, diffVars, addVars, ownVars>>

\* await Promise.all(reviewTasks): without results the command is done.
EndReview ==
    /\ pathPhase = "reviewing"
    /\ reviewed = discovered
    /\ pathPhase' = IF namedResults = <<>> THEN "done" ELSE "grouping"
    /\ pathCursor' = 1
    /\ UNCHANGED <<discovered, reviewed, namedResults, fileIssuesMap, filesRead,
                   filesWritten, coreVars, configVars, diffVars, addVars, ownVars>>

\* Step 2, one turn: the result joins the group of result.file; a new
\* group reads that file first, and a failed read ends the command.
GroupIssue ==
    /\ pathPhase = "grouping"
    /\ pathCursor <= Len(namedResults)
    /\ LET file == namedResults[pathCursor].file
           group == GroupOf(fileIssuesMap, file)
       IN  IF group > 0
           THEN /\ fileIssuesMap' =
                       [fileIssuesMap EXCEPT ![group].issues = Append(@, pathCursor)]
                /\ pathCursor' = pathCursor + 1
                /\ UNCHANGED <<filesRead, pathPhase>>
           ELSE IF file \in OnDisk
           THEN /\ filesRead' = filesRead \cup {file}
                /\ fileIssuesMap' =
                       Append(fileIssuesMap,
                              [filePath |-> file, issues |-> <<pathCursor>>])
                /\ pathCursor' = pathCursor + 1
                /\ UNCHANGED pathPhase
           ELSE /\ pathPhase' = "failed"
                /\ UNCHANGED <<filesRead, fileIssuesMap, pathCursor>>
    /\ UNCHANGED <<discovered, reviewed, namedResults, filesWritten,
                   coreVars, configVars, diffVars, addVars, ownVars>>

EndGrouping ==
    /\ pathPhase = "grouping"
    /\ pathCursor > Len(namedResults)
    /\ pathPhase' = "fixing"
    /\ pathCursor' = 1
    /\ UNCHANGED <<discovered, reviewed, namedResults, fileIssuesMap, filesRead,
                   filesWritten, coreVars, configVars, diffVars, addVars, ownVars>>

\* Step 3, one group: its issues are fixed in turn and the file is
\* written if a fix changed the content.
FixGroup ==
    /\ pathPhase = "fixing"
    /\ pathCursor <= Len(fileIssuesMap)
    /\ \E modified \in BOOLEAN :
          filesWritten' = IF modified
                          THEN filesWritten \cup {fileIssuesMap[pathCursor].filePath}
                          ELSE filesWritten
    /\ pathCursor' = pathCursor + 1
    /\ pathPhase' = IF pathCursor = Len(fileIssuesMap) THEN "done" ELSE "fixing"
    /\ UNCHANGED <<discovered, reviewed, namedResults, fileIssuesMap, filesRead,
                   coreVars, configVars, diffVars, addVars, ownVars>>

NextPaths ==
    \/ \E filePath \in Discoverable : ReviewNamedFile(filePath)
    \/ EndReview
    \/ GroupIssue
    \/ EndGrouping
    \/ FixGroup

SpecPaths == InitPaths /\ [][NextPaths]_vars

(***************************************************************************)
(* The generateRules calls of an add run (SpecOwn): one call per file, all *)
(* on the same provider object and running at the same time, each with    *)
(* the attempt counter, lastSessionId and lastError of its own call.       *)
(***************************************************************************)
Operations == 1..Len(AddFiles)

\* The session id the agent gives to an attempt of an operation, and the
\* error of a failed attempt.
SessionIssued(o, k) == <<[op |-> o, attempt |-> k]>>
ErrorOf(o, k, kind) == <<[op |-> o, attempt |-> k, kind |-> kind]>>

\* How an attempt ends: with rules, with an execution error, with a format
\* error whose response carries a session id, or with one that carries none.
AttemptOutcomes == {"ok", "execution", "format_session", "format_bare"}

\* The arguments of runClaudeWithRetry(prompt, lastSessionId, lastError):
\* the locals of the calling operation.
ResumeState_Shared(o, states) ==
    [sessionId |-> states[1].lastSessionId, error |-> states[1].lastError]
ResumeState(o, states) ==
    [sessionId |-> states[o].lastSessionId, error |-> states[o].lastError]

InitOwn ==
    /\ CoreIdle
    /\ ConfigIdle
    /\ DiffIdle
    /\ AddIdle
    /\ PathIdle
    /\ retryState = [o \in Operations |->
                        [attempt |-> 1, phase |-> "between",
                         lastSessionId |-> <<>>, lastError |-> <<>>,
                         carried |-> [sessionId |-> <<>>, error |-> <<>>]]]

\* for (attempt ...) try { await this.runClaudeWithRetry(...) }
StartAttempt(o) ==
    /\ retryState[o].phase = "between"
    /\ retryState' = [retryState EXCEPT ![o].phase = "running",
                                        ![o].carried = ResumeState(o, retryState)]
    /\ UNCHANGED <<coreVars, configVars, diffVars, addVars, pathVars>>

\* The attempt returns, or the catch block records its error and the loop
\* goes on or throws.
AttemptSettles(o) ==
    /\ retryState[o].phase = "running"
    /\ \E outcome \in AttemptOutcomes :
          LET st == retryState[o]
              k == st.attempt
          IN  retryState' =
                [retryState EXCEPT ![o] =
                    IF outcome = "ok" THEN [st EXCEPT !.phase = "resolved"]
                    ELSE [st EXCEPT
                            !.lastError = ErrorOf(o, k, outcome),
                            !.lastSessionId =
                                IF outcome = "execution" THEN <<>>
                                ELSE IF outcome = "format_session" THEN SessionIssued(o, k)
                                ELSE st.lastSessionId,
                            !.phase = IF k = DefaultMaxRetries THEN "rejected"
                                      ELSE "between",
                            !.attempt = IF k = DefaultMaxRetries THEN k ELSE k + 1]]
    /\ UNCHANGED <<coreVars, configVars, diffVars, addVars, pathVars>>

NextOwn ==
    \/ \E o \in Operations : StartAttempt(o)
    \/ \E o \in Operations : AttemptSettles(o)

SpecOwn == InitOwn /\ [][NextOwn]_vars

(***************************************************************************)
(* Claims about extraction (SpecExtract).                                  *)
(***************************************************************************)
IsExecErrorEnvelope(v) ==
    IsEnv(v) /\ v.env.type = "result" /\ v.env.subtype = "error_during_execution"

\* The captured output carries the execution-error envelope on some line.
CarriesExecMarker(response) ==
    \E i \in 1..Len(response) :
        response[i].lk = "json" /\ IsExecErrorEnvelope(response[i].val[1])

\* The lines left after dropping log and empty lines are exactly one
\* document, the execution-error envelope.
IsSingleExecEnvelope(response) ==
    LET nd == NonDebugLines(response)
    IN  Len(nd) = 1 /\ nd[1].lk = "json" /\ IsExecErrorEnvelope(nd[1].val[1])

FailsWithExecutionError(o) ==
    o.status = "error" /\ o.err.kind = "exec" /\ o.err.isExecutionError

\* C9 as claimed: every captured output that carries the execution-error
\* envelope marker makes extraction fail with an ExecutionError, never with a
\* FormatError or ExtractionError, and never return a value.
C9_MarkerAlwaysExecutionError ==
    (exPhase = "done" /\ CarriesExecMarker(exResponse))
        => FailsWithExecutionError(exOutcome)

\* C9 amended: every captured output whose lines, log and empty lines
\* dropped, are one execution-error result envelope makes extraction fail
\* with an ExecutionError and return no value.
C9_SingleEnvelopeExecutionError ==
    (exPhase = "done" /\ IsSingleExecEnvelope(exResponse))
        => FailsWithExecutionError(exOutcome)

C9_Witness ==
    /\ exPhase = "done"
    /\ IsSingleExecEnvelope(exResponse)
    /\ Len(exResponse) > 1
    /\ exSchema = "rules"
    /\ exOutcome.err.kind = "exec"

\* The captured output is one well-formed JSON document that is not a result
\* envelope and that the schema accepts as it stands.
WellFormedMatching(response, schema) ==
    LET parsed == Parse(RawTokens(response))
    IN  /\ parsed # <<>>
        /\ ~IsEnv(parsed[1])
        /\ VParse(schema, parsed[1]) = parsed

\* C10 as claimed: for every captured output that is well-formed JSON
\* matching the expected schema (an empty array and an object with nested
\* arrays or objects included), extraction returns the value JSON.parse
\* gives for that output.
C10_RoundTrip ==
    (exPhase = "done" /\ WellFormedMatching(exResponse, exSchema))
        => exOutcome = Returned(Parse(RawTokens(exResponse))[1])

(***************************************************************************)
(* Claims about the retry loop (SpecRetry).                                *)
(***************************************************************************)
MaxRetriesNow == EffectiveMaxRetries(cfgMaxRetries)
Fresh(inv) == inv.sessionId = "-" /\ inv.prompt = "original"

\* C3: a generateRules call with maxRetries = 3 whose every attempt fails
\* with an ExecutionError (agent-reported, nonzero exit, start failure or
\* timeout) makes exactly 3 invocations, none with a continuity token, and
\* raises the 3rd attempt's error.
C3_AllExecutionFailures ==
    (/\ op = "generateRules"
     /\ MaxRetriesNow = 3
     /\ callState # "returned"
     /\ \A i \in 1..Len(errors) : IsExecutionKind(errors[i]))
        => /\ \A i \in 1..Len(invocations) : invocations[i].sessionId = "-"
           /\ Len(invocations) = Len(errors)
           /\ Len(invocations) <= 3
           /\ callState = "thrown" <=> Len(invocations) = 3
           /\ callState = "thrown" => callError = errors[3]

C3_Witness ==
    /\ op = "generateRules"
    /\ MaxRetriesNow = 3
    /\ callState = "thrown"
    /\ Len(errors) = 3
    /\ errors[1].kind = "exec"
    /\ errors[2].kind = "process_exit"
    /\ errors[3].kind = "process_timeout"
    /\ callError = errors[3]

\* C4 as claimed: each of generateRules, reviewFile, reviewDiff and fixIssue
\* is retried, so a call fails only after maxRetries failed invocations.
C4_EveryOperationRetried ==
    callState = "thrown" => Len(invocations) = MaxRetriesNow

\* Attempt i + 1, once made, resumes session t with a correction prompt; in
\* the retry loop it is due while it has not been made.
CarriesToken(i, t) ==
    t # "-" =>
        /\ Len(invocations) > i =>
                /\ invocations[i + 1].sessionId = t
                /\ invocations[i + 1].prompt = "correction"
                /\ invocations[i + 1].validation
        /\ (op = "generateRules" /\ Len(invocations) = i) => callState = "running"

\* C5: in the retry loop, when attempt i fails with a FormatError whose raw
\* text holds a recoverable session token t and attempts remain, attempt
\* i + 1 is made, carries t and sends a correction prompt built from the
\* validation message and issue list.
C5_CorrectionCarriesToken ==
    \A i \in 1..Len(errors) :
        (errors[i].kind = "format" /\ i < MaxRetriesNow)
            => CarriesToken(i, RecoverSession(errors[i].response))

C5_Witness ==
    /\ op = "generateRules"
    /\ Len(invocations) = 3
    /\ errors[1].kind = "format"
    /\ errors[1].response[1] = DebugLine
    /\ invocations[2].sessionId = "s1"
    /\ invocations[2].prompt = "correction"
    /\ errors[2].kind = "format"
    /\ invocations[3].sessionId = "s2"

\* C6 as claimed: after an attempt that fails with an ExecutionError (start
\* failure, nonzero exit, timeout or agent-reported), the next attempt
\* carries no continuity token and sends the original prompt, also when an
\* earlier attempt had recovered a token.
C6_ExecutionErrorRetriesFresh ==
    \A i \in 1..Len(errors) :
        (IsExecutionKind(errors[i]) /\ Len(invocations) > i)
            => Fresh(invocations[i + 1])

\* C7 as claimed: after an attempt that fails with a FormatError or
\* ExtractionError whose raw text yields no continuity token, the next
\* attempt carries no token and sends the original prompt, whatever tokens
\* earlier attempts recovered.
C7_NoTokenRetriesFresh ==
    \A i \in 1..Len(errors) :
        (/\ errors[i].kind \in {"format", "extraction"}
         /\ RecoverSession(errors[i].response) = "-"
         /\ Len(invocations) > i)
            => Fresh(invocations[i + 1])

C8_Budget ==
    /\ Len(invocations) <= MaxRetriesNow
    /\ Len(errors) = Len(invocations) - (IF callState = "returned" THEN 1 ELSE 0)
    /\ callState = "thrown" =>
            /\ Len(errors) >= 1
            /\ callError = errors[Len(errors)]
            /\ op = "generateRules" => Len(errors) = MaxRetriesNow
    /\ (callState = "running" /\ op = "generateRules") => Len(errors) < MaxRetriesNow

\* C8: whatever the kinds of the failures (execution, format, extraction,
\* truncation), a call makes at most maxRetries invocations (3 when unset),
\* every failed attempt, a truncation included, uses up one of them, no
\* invocation follows a successful attempt, and on exhaustion the call
\* raises the error of its last attempt.
C8_BoundedAttempts ==
    /\ []C8_Budget
    /\ [][callState # "running" => invocations' = invocations]_vars

C8_Witness ==
    /\ op = "generateRules"
    /\ cfgMaxRetries = 0
    /\ callState = "thrown"
    /\ Len(invocations) = 3
    /\ errors[1].kind = "truncated"
    /\ errors[2].kind = "extraction"
    /\ errors[3].kind = "format"
    /\ callError = errors[3]

(***************************************************************************)
(* Claims about the review batch (SpecBatch).                              *)
(***************************************************************************)
InFlight == Cardinality({t \in Tasks : taskState[t] = "running"})

\* C1: in every reachable state of a review batch the number of provider
\* calls started and not yet settled is at most the concurrency ceiling,
\* whatever the number of tasks and the order in which they complete.
C1_InFlightAtMostCeiling == InFlight <= Concurrency

C1_Witness ==
    /\ Concurrency = 2
    /\ InFlight = 2
    /\ queue # <<>>
    /\ \E t, u \in Tasks : u < t /\ taskState[t] = "done" /\ taskState[u] = "running"

\* C2: a task whose provider call fails terminally does not fail the batch:
\* the batch never fails and can always go on until it resolves, only
\* successful tasks have results in the collection, and when the batch
\* resolves every task has run to its outcome and every successful task's
\* results are in the collection.
C2_FailureIsContained ==
    /\ batchState # "failed"
    /\ batchState # "resolved" => ENABLED NextBatch
    /\ \A i \in 1..Len(allResults) : taskOutcome[allResults[i]] = "results"
    /\ batchState = "resolved" =>
            \A t \in Tasks :
                /\ taskOutcome[t] # "none"
                /\ taskOutcome[t] = "results" => \E i \in 1..Len(allResults) : allResults[i] = t

C2_Witness ==
    /\ batchState = "resolved"
    /\ Concurrency = 1
    /\ nTasks = 3
    /\ taskOutcome[1] = "failed"
    /\ taskOutcome[2] = "results"
    /\ taskOutcome[3] = "results"
    /\ allResults = <<2, 3>>

\* The number of times the results of task t are in the collection.
Occurrences(t) == Cardinality({i \in 1..Len(allResults) : allResults[i] = t})

\* C38: after all tasks of a batch have settled, the result collection is
\* the multiset union of the result lists of the tasks that succeeded:
\* whatever the completion order, the results of a successful task are in
\* it once, those of no other task are, and nothing else is.
C38_CollectionIsUnionOfResults ==
    /\ \A t \in Tasks :
          Occurrences(t) = IF taskOutcome[t] = "results" THEN 1 ELSE 0
    /\ Len(allResults) = Cardinality({t \in Tasks : taskOutcome[t] = "results"})

C38_Witness ==
    /\ batchState = "resolved"
    /\ nTasks = 4
    /\ allResults = <<3, 1, 4>>
    /\ taskOutcome[2] = "failed"

\* C39 as claimed: the review command reports the clean outcome (no issues
\* found, exit status 0) only if every task of the batch completed
\* successfully with an empty result list; a run in which a task failed
\* never reports it.
C39_CleanOnlyIfAllSucceeded ==
    (batchState = "resolved" /\ ReviewOutcome(allResults) = "clean")
        => \A t \in Tasks : taskOutcome[t] = "empty"

(***************************************************************************)
(* Claims about the commands (SpecCommand).                                *)
(***************************************************************************)
Threshold == MinSeverityOf(optMinSeverity, cfgMinSeverity)
Rank == [s \in Severities |-> CASE s = "critical" -> 4 [] s = "error" -> 3
                                 [] s = "warning" -> 2 [] OTHER -> 1]
SeverityOrWarning(r) == IF r.severity = "absent" THEN "warning" ELSE r.severity
PassesAt(r, m) == Rank[SeverityOrWarning(r)] >= Rank[m]
Range(seq) == {seq[i] : i \in 1..Len(seq)}

\* C13 as claimed: in any run of review or fix, every provider invocation
\* issued is for a rule whose severity is at or above the minimum severity
\* threshold.
C13_NoInvocationBelowThreshold ==
    \A k \in 1..invoked : PassesAt(reviewTasks[k].rule, Threshold)

\* C14: for every rule set, a rule passes filterRulesBySeverity at threshold
\* m exactly when its severity, warning when absent, ranks at or above m;
\* the rules kept at info include those kept at warning, which include
\* those kept at error, which include those kept at critical; and the rules
\* the review command keeps are the filter's at its threshold.
C14_SeverityFilterMonotonic ==
    /\ cmdPhase = "start" =>
        /\ \A m \in Severities :
                FilterRulesBySeverity(cfgRules, m) = SelectSeq(cfgRules, LAMBDA r : PassesAt(r, m))
        /\ Range(FilterRulesBySeverity(cfgRules, "critical"))
                \subseteq Range(FilterRulesBySeverity(cfgRules, "error"))
        /\ Range(FilterRulesBySeverity(cfgRules, "error"))
                \subseteq Range(FilterRulesBySeverity(cfgRules, "warning"))
        /\ Range(FilterRulesBySeverity(cfgRules, "warning"))
                \subseteq Range(FilterRulesBySeverity(cfgRules, "info"))
    /\ (command = "review" /\ cmdPhase # "start") =>
            rules = SelectSeq(cfgRules, LAMBDA r : PassesAt(r, Threshold))

C14_Witness ==
    /\ command = "review"
    /\ cmdPhase = "reviewing"
    /\ Threshold = "warning"
    /\ Len(cfgRules) = 2
    /\ cfgRules[1].severity = "absent"
    /\ cfgRules[2].severity = "info"
    /\ rules = <<cfgRules[1]>>

\* What the claim says is kept of a diff's files.
ExcludedByPolicy(f) ==
    MatchesAny(f, DefaultExcludePatterns
                    \o (IF cfgFilePatterns = <<>> THEN <<>> ELSE cfgFilePatterns[1].exclude))
IncludeConfigured == cfgFilePatterns # <<>> /\ Len(cfgFilePatterns[1].include) > 0
KeptByPolicy(f) ==
    /\ ~ExcludedByPolicy(f)
    /\ IF IncludeConfigured THEN MatchesAny(f, cfgFilePatterns[1].include)
       ELSE f.ext \in DefaultExtensions

\* C19 as claimed: the files of a diff are filtered before the tasks are
\* created: excluded files are dropped, with include patterns only matching
\* files are kept, and without include patterns, also when there is no
\* file-pattern configuration at all, only files with an allowlisted
\* extension are kept.
C19_DiffFilesFiltered ==
    (command = "review" /\ inputMode = "stdin" /\ cmdPhase \in {"reviewing", "reviewed"})
        => reviewFiles = SelectSeq(inputFiles, KeptByPolicy)

\* The files the command has to review, as the code finds them.
MatchingFiles ==
    IF inputMode = "stdin" THEN FilterDiffFilesByPatterns(inputFiles, cfgFilePatterns)
    ELSE inputFiles

\* C20 as claimed: a run with no rules, or with no matching files in path
\* mode or in diff mode, ends with a non-zero exit status and issues no
\* invocation.
C20_NothingToDoIsFatal ==
    (cmdPhase # "start" /\ (Len(cfgRules) = 0 \/ Len(MatchingFiles) = 0))
        => (cmdPhase = "exited" /\ exitCode > 0 /\ invoked = 0)

(***************************************************************************)
(* Claims about the report (SpecReport).                                   *)
(***************************************************************************)
\* JavaScript's < on strings compares UTF-16 code units: "B.ts" is before
\* "a.ts".
CodeUnitRank(file) == IF file = "B.ts" THEN 1 ELSE 2

\* (a.file, a.line, a.column) <= (b.file, b.line, b.column) with the files
\* ordered by rank.
TupleLeq(rank(_), a, b) ==
    \/ rank(a.file) < rank(b.file)
    \/ rank(a.file) = rank(b.file) /\ a.line < b.line
    \/ rank(a.file) = rank(b.file) /\ a.line = b.line /\ a.column <= b.column

\* The results in the order of the tasks' creation.
RECURSIVE InTaskOrder(_)
InTaskOrder(n) == IF n = 0 THEN <<>> ELSE InTaskOrder(n - 1) \o taskResults[n]

C12_ReportDeterministic ==
    reportPhase = "sorted" => collected = SortResults(InTaskOrder(Len(taskResults)))

(***************************************************************************)
(* Claims about the fix loop (SpecFix).                                    *)
(***************************************************************************)
\* The running content after the k-th processed issue.
ContentAfter(k) == IF k < Len(fixLog) THEN fixLog[k + 1].before ELSE currentContent
Finished == fixPhase \in {"written", "unwritten"}
BadRange(fix) == fix.endLine < fix.startLine

\* C15: a FixResult whose endLine is less than its startLine is never
\* returned by fixIssue (the call throws); the running content is the same
\* after that issue as before it, a file in which nothing else changed is
\* left as it was on disk, and the loop goes on to the remaining issues:
\* when it ends every issue of the file has been processed.
C15_BadRangeRejected ==
    /\ \A k \in 1..Len(fixLog) :
            (fixLog[k].kind # "error" /\ BadRange(fixLog[k].fix)) =>
                /\ fixLog[k].kind = "rejected"
                /\ ContentAfter(k) = fixLog[k].before
    /\ (\A k \in 1..Len(fixLog) : fixLog[k].kind \notin {"applied", "noop"}) =>
            (disk = fileContent /\ ~fileModified)
    /\ Finished => Len(fixLog) = Len(issues)

C15_Witness ==
    /\ fixPhase = "written"
    /\ Len(fixLog) = 2
    /\ fixLog[1].kind = "rejected"
    /\ fixLog[1].fix.success
    /\ fixLog[1].before = fileContent
    /\ fixLog[2].kind = "applied"
    /\ fixLog[2].before = fileContent

\* The FixResults the loop applied, in the order of their application.
AppliedFixes ==
    [k \in 1..Len(SelectSeq(fixLog, LAMBDA e : e.kind \in {"applied", "noop"})) |->
        SelectSeq(fixLog, LAMBDA e : e.kind \in {"applied", "noop"})[k].fix]

NonOverlapping(fixes) ==
    \A i, j \in 1..Len(fixes) :
        i # j => (fixes[i].endLine < fixes[j].startLine \/ fixes[j].endLine < fixes[i].startLine)

RECURSIVE MaxEndLine(_, _)
MaxEndLine(fixes, n) ==
    IF fixes = <<>> THEN n
    ELSE MaxEndLine(Tail(fixes), IF Head(fixes).endLine > n THEN Head(fixes).endLine ELSE n)

\* What stands for line p of content once the replacements are made: the
\* fixed lines of the replacement that starts at p, nothing inside a
\* replaced range, the line itself elsewhere.
Piece(content, fixes, p) ==
    IF \E i \in 1..Len(fixes) : fixes[i].startLine = p
    THEN fixes[CHOOSE i \in 1..Len(fixes) : fixes[i].startLine = p].fixedLines
    ELSE IF \E i \in 1..Len(fixes) : fixes[i].startLine < p /\ p <= fixes[i].endLine
    THEN <<>>
    ELSE IF p <= Len(content) THEN <<content[p]>> ELSE <<>>

\* The replacements made on content whatever their order, every range
\* counted in lines of content.
RECURSIVE Replaced(_, _, _, _)
Replaced(content, fixes, p, last) ==
    IF p > last THEN <<>>
    ELSE Piece(content, fixes, p) \o Replaced(content, fixes, p + 1, last)

\* Every fix lies above the fixes applied before it.
DescendingRanges(fixes) ==
    \A k \in 1..(Len(fixes) - 1) : fixes[k + 1].endLine < fixes[k].startLine

\* C16 as claimed: when the FixResults the loop applied do not overlap and
\* were applied in descending line order, the final content is that of the
\* same replacements made in any other order with the line offsets
\* recomputed.
C16_OrderIndependent ==
    (Finished /\ NonOverlapping(AppliedFixes) /\ DescendingRanges(AppliedFixes)) =>
        currentContent = Replaced(fileContent, AppliedFixes, 1,
                                  MaxEndLine(AppliedFixes, Len(fileContent)))

\* C17 as claimed: the issues are processed in non-increasing line order,
\* and when the fix of an issue at line L is requested, line L of the
\* running content is the line the issue was reported on.
C17_PendingLinesUntouched ==
    /\ \A k \in 1..(Len(fixLog) - 1) : fixLog[k].issue.line >= fixLog[k + 1].issue.line
    /\ \A k \in 1..Len(fixLog) :
            fixLog[k].kind # "norule" =>
                /\ fixLog[k].issue.line <= Len(fixLog[k].before)
                /\ fixLog[k].before[fixLog[k].issue.line] = fileContent[fixLog[k].issue.line]

\* C18: after all issues of a file are processed, the file is written if
\* and only if some fix changed the running content; a file for which every
\* fix was unsuccessful, rejected, errored or a no-op is not written; the
\* written content is the final running content; and nothing is written
\* before the loop ends.
C18_WrittenIffChanged ==
    /\ Finished =>
        /\ (fixPhase = "written") <=> (\E k \in 1..Len(fixLog) : ContentAfter(k) # fixLog[k].before)
        /\ fixPhase = "written" => disk = currentContent
        /\ fixPhase = "unwritten" => disk = fileContent
    /\ ~Finished => disk = fileContent

C18_Witness ==
    /\ fixPhase = "written"
    /\ Len(fixLog) = 2
    /\ fixLog[1].kind = "applied"
    /\ fixLog[2].kind = "noop"
    /\ disk = currentContent
    /\ disk # fileContent

\* The content after is the content before with its lines
\* startLine..endLine replaced by the fixed lines of the fix.
ReplacesItsRange(before, after, fix) ==
    /\ Len(after) = Len(before) - (fix.endLine - fix.startLine + 1) + Len(fix.fixedLines)
    /\ \A p \in 1..Len(before) :
          /\ p < fix.startLine => (p <= Len(after) /\ after[p] = before[p])
          /\ p > fix.endLine =>
                LET q == p - (fix.endLine - fix.startLine + 1) + Len(fix.fixedLines)
                IN  q \in 1..Len(after) /\ after[q] = before[p]
    /\ \A i \in 1..Len(fix.fixedLines) :
          LET q == fix.startLine - 1 + i
          IN  q \in 1..Len(after) /\ after[q] = fix.fixedLines[i]

\* C30 as claimed: the running content changes only by the application of a
\* FixResult with success = true whose replacement differs from the current
\* content; the application replaces exactly the lines startLine..endLine
\* and leaves the lines outside the range as they were, so that the line
\* count becomes the old count minus (endLine - startLine + 1) plus the
\* number of replacement lines; a FixResult with success = false leaves the
\* content as it was.
C30_FixReplacesItsRange ==
    \A k \in 1..Len(fixLog) :
        /\ ContentAfter(k) # fixLog[k].before =>
              (fixLog[k].kind = "applied" /\ fixLog[k].fix.success)
        /\ fixLog[k].kind = "applied" =>
              ReplacesItsRange(fixLog[k].before, ContentAfter(k), fixLog[k].fix)
        /\ ~fixLog[k].fix.success => ContentAfter(k) = fixLog[k].before

\* fixResults: the outcomes pushed by the loop (fix.ts 169-199); a skipped
\* issue and a caught error push nothing.
Pushed(kind) == kind \in {"applied", "noop", "unsuccessful"}
FixResults == SelectSeq(fixLog, LAMBDA e : Pushed(e.kind))

\* C31 as claimed: every issue the loop processed has exactly one recorded
\* outcome in the fix results, an applied fix or a skipped or failed one (no
\* success, no change, rejected, error, no matching rule), so that at the
\* end the number of recorded outcomes is the number of issues.
C31_OneOutcomePerIssue ==
    /\ Len(FixResults) = Len(fixLog)
    /\ Finished => Len(FixResults) = Len(issues)

\* The running content after the first k issues: the applied fixes made one
\* after the other on the content read from the file.
RECURSIVE RunningContent(_)
RunningContent(k) ==
    IF k = 0 THEN fileContent
    ELSE IF fixLog[k].kind = "applied"
    THEN ApplyFixToContent(RunningContent(k - 1), fixLog[k].fix)
    ELSE RunningContent(k - 1)

\* C34: fix requests are strictly sequential.  At most one fixIssue request
\* is in flight; it is the request for the next issue, made after every
\* earlier issue has settled and had its replacement applied, and it is
\* given the running content that the fixes applied so far have produced.
C34_FixRequestsSequential ==
    /\ Len(fixRequest) <= 1
    /\ fixRequest # <<>> =>
          /\ fixPhase = "fixing"
          /\ fixRequest[1].issue = issueIndex
          /\ Len(fixLog) = issueIndex - 1
          /\ fixRequest[1].content = currentContent
          /\ currentContent = RunningContent(Len(fixLog))
    /\ Finished => fixRequest = <<>>

C34_Witness ==
    /\ fixRequest # <<>>
    /\ fixRequest[1].issue = 2
    /\ fixLog[1].kind = "applied"
    /\ fixRequest[1].content # fileContent

\* C22 as claimed: an invocation whose process exits with a nonzero code,
\* cannot be started or is killed on timeout fails with an error that the
\* retry logic sees as an ExecutionError (isExecutionError), unlike a
\* FormatError.
C22_ProcessFailureIsExecutionError ==
    \A i \in 1..Len(errors) :
        errors[i].kind \in ProcessErrorKinds => errors[i].isExecutionError

\* C24 as claimed: every ReviewResult that a review operation returns, and
\* that so reaches the aggregated results, has line >= 1 and column >= 1;
\* a response holding a result with line or column below 1 is not accepted.
C24_PositionsAtLeastOne ==
    (op \in {"reviewFile", "reviewDiff"} /\ callState = "returned")
        => \A i \in 1..Len(callValue) : callValue[i].tag # "issue_low"

(***************************************************************************)
(* Claims about failed extraction and validation (SpecExtract).            *)
(***************************************************************************)
\* The captured text holds no JSON that any strategy can parse: without an
\* envelope neither pattern of the fallback parses; with an envelope the
\* result string is prose or JSON cut off before its end.
NothingParses(response) ==
    LET ro == ResultObject(response)
    IN  IF ro = <<>>
        THEN ~IsSet(Fallback(CleanTokens(response), <<>>))
        ELSE /\ ro[1].env.subtype # "error_during_execution"
             /\ ro[1].env.content.form \in {"text", "cut"}

\* C27 as claimed: whenever no strategy yields parseable JSON from the
\* captured text, with or without a result envelope around it, extraction
\* fails with an ExtractionError (the truncation error included) carrying
\* the raw text; it returns and validates no value of its own making.
C27_NothingParsesIsExtractionError ==
    (exPhase = "done" /\ NothingParses(exResponse))
        => /\ exOutcome.status = "error"
           /\ exOutcome.err.kind \in {"extraction", "truncated"}
           /\ exOutcome.err.response = exResponse

\* The value the strategies extract from the text violates the schema.
ViolatesSchema(response, schema) ==
    LET raw == ExtractJsonFromResponse(response, "none")
    IN  /\ schema # "none"
        /\ raw.status = "ok"
        /\ VParse(schema, raw.value[1]) = <<>>

\* The text holds a result envelope whose result string is a JSON array of
\* review results, bare or in a code block.
ReviewResponseValid(response) ==
    LET ro == FirstResultLine(NonDebugLines(response))
    IN  /\ ro # <<>>
        /\ ro[1].env.content.form \in {"json", "fenced"}
        /\ ro[1].env.content.val[1].k = "arr"
        /\ \A i \in 1..Len(ro[1].env.content.val[1].kids) :
               ValidIssue(ro[1].env.content.val[1].kids[i])

\* C28 as claimed: whenever the extracted value violates the expected schema
\* the operation fails with a FormatError carrying the validation issues and
\* the raw response text, and a review operation returns a result (an empty
\* list included) only for a response that passed extraction and validation.
C28_InvalidResponseFails ==
    /\ (exPhase = "done" /\ ViolatesSchema(exResponse, exSchema))
          => /\ exOutcome.status = "error"
             /\ exOutcome.err.validationError
             /\ exOutcome.err.response = exResponse
    /\ exPhase = "reviewed" => ReviewResponseValid(exResponse)

(***************************************************************************)
(* Claims about the configuration (SpecConfig).                            *)
(***************************************************************************)
\* C25 as claimed: the ceiling given to the limiter is an integer from 1 to
\* 20 whatever the command line and the configuration file hold, it is 5
\* when neither sets it, and a value on the command line is used in
\* preference to the one in the file.
C25_CeilingWithinRange ==
    configPhase = "limited" =>
        /\ limitCeiling[1].status = "limit"
        /\ limitCeiling[1].concurrency.t = "int"
        /\ limitCeiling[1].concurrency.n \in ConcurrencyRange
        /\ (cliMaxConcurrency = Undefined /\ ConfigProvider(loadedProvider[1]) = <<>>)
              => limitCeiling[1].concurrency = Num(DefaultMaxConcurrency)
        /\ ValidMaxConcurrency(cliMaxConcurrency) /\ cliMaxConcurrency # Undefined
              => limitCeiling[1].concurrency = cliMaxConcurrency

\* C26 as claimed: parsing a provider configuration gives executionInterval
\* 10 when the field is absent, accepts every integer from 0 to 1000 and
\* returns it unchanged, and rejects a negative value, a value above 1000
\* and a value that is no integer.
C26_ExecutionIntervalParsed ==
    (configPhase # "start" /\ configFile.hasProvider
     /\ ValidMaxConcurrency(configFile.maxConcurrency)) =>
        LET given == configFile.executionInterval
            parsed == loadedProvider[1]
        IN  /\ given = Undefined =>
                  /\ parsed.status = "ok"
                  /\ parsed.executionInterval = Num(DefaultExecutionInterval)
            /\ (given.t = "int" /\ given.n \in 0..1000) =>
                  /\ parsed.status = "ok"
                  /\ parsed.executionInterval = given
            /\ (given.t = "fraction" \/ (given.t = "int" /\ given.n \notin 0..1000)) =>
                  parsed.status = "invalid"

(***************************************************************************)
(* Claims about the diff (SpecDiff).                                       *)
(***************************************************************************)
\* The numbers the unified diff gives line j of a chunk: the old-file number
\* counts the earlier lines that are not added, the new-file number the
\* earlier lines that are not deleted.
OldNumber(chunk, j) ==
    chunk.oldStart
        + Cardinality({i \in 1..(j - 1) : chunk.changes[i].type # "AddedLine"})
NewNumber(chunk, j) ==
    chunk.newStart
        + Cardinality({i \in 1..(j - 1) : chunk.changes[i].type # "DeletedLine"})

\* C29 as claimed: for every line of every parsed hunk, in hunk order, an
\* add line carries its new-file number as newLine, a delete line its
\* old-file number as oldLine, and a context line both.
C29_LinesCarryTheirNumbers ==
    diffPhase \in {"parsed", "formatted"} =>
        /\ Len(hunks) = Len(chunks)
        /\ \A h \in 1..Len(hunks) :
              /\ Len(hunks[h].lines) = Len(chunks[h].changes)
              /\ \A j \in 1..Len(hunks[h].lines) :
                    LET line == hunks[h].lines[j]
                    IN  /\ line.type = "add" =>
                              line.newLine = NewNumber(chunks[h], j)
                        /\ line.type = "delete" =>
                              line.oldLine = OldNumber(chunks[h], j)
                        /\ line.type = "context" =>
                              /\ line.oldLine = OldNumber(chunks[h], j)
                              /\ line.newLine = NewNumber(chunks[h], j)

(***************************************************************************)
(* Claims about the add command (SpecAdd).                                 *)
(***************************************************************************)
NewRules == Flat(generated, nAddFiles)
GeneratedIds == {NewRules[i].id : i \in 1..Len(NewRules)}
FirstGenerated(id) == Min({i \in 1..Len(NewRules) : NewRules[i].id = id})
LastGenerated(id) == NewRules[Max({i \in 1..Len(NewRules) : NewRules[i].id = id})]
LoadedIds == {loadedRules[i].id : i \in 1..Len(loadedRules)}

\* C33: after any sequence of add runs the ids of the stored rules are
\* unique if they were at the start, also when a run generates an id more
\* than once or from several files.  A saved run has left every loaded rule
\* in its position, replaced by the generated rule of its id if there is
\* one and unchanged otherwise, and has appended the generated rules with
\* new ids, in the order in which their ids were first generated.
C33_MergeKeepsIdsUnique ==
    /\ UniqueIds(storedRules)
    /\ addPhase = "saved" =>
          /\ Len(storedRules) >= Len(loadedRules)
          /\ \A i \in 1..Len(loadedRules) :
                storedRules[i] =
                    IF loadedRules[i].id \in GeneratedIds
                    THEN LastGenerated(loadedRules[i].id)
                    ELSE loadedRules[i]
          /\ \A i \in (Len(loadedRules) + 1)..Len(storedRules) :
                /\ storedRules[i].id \in GeneratedIds \ LoadedIds
                /\ storedRules[i] = LastGenerated(storedRules[i].id)
                /\ \A j \in (i + 1)..Len(storedRules) :
                      FirstGenerated(storedRules[i].id)
                          < FirstGenerated(storedRules[j].id)
          /\ GeneratedIds \subseteq {storedRules[i].id : i \in 1..Len(storedRules)}

C33_Witness ==
    /\ addPhase = "saved"
    /\ addRun = MaxAddRuns
    /\ nAddFiles = Len(AddFiles)
    /\ ~UniqueIds(NewRules)
    /\ GeneratedIds \cap LoadedIds # {}
    /\ GeneratedIds \ LoadedIds # {}
    /\ LoadedIds \ GeneratedIds # {}

\* C40: the add command saves the configuration only after the
\* generateRules call of every file has succeeded: in a run that has not
\* saved, and so in one where a call failed terminally, the stored rule set
\* is the one the run loaded, whatever was generated for the other files.
C40_SavedOnlyAfterAllSucceeded ==
    /\ addPhase # "saved" => storedRules = loadedRules
    /\ addPhase = "saved" =>
          \A f \in 1..nAddFiles : generated[f].status = "ok"

C40_Witness ==
    /\ addPhase = "failed"
    /\ generated[1].status = "ok"
    /\ generated[2].status = "failed"
    /\ GeneratedIds \ LoadedIds # {}
    /\ GeneratedIds \cap LoadedIds # {}

(***************************************************************************)
(* Claims about the files of the fix command (SpecPaths).                  *)
(***************************************************************************)
\* C35 as claimed: the fix command reads and writes only files of the
\* discovered file set, whatever file path the agent puts in a result.
C35_OnlyDiscoveredFilesTouched ==
    /\ filesRead \subseteq discovered
    /\ filesWritten \subseteq discovered

(***************************************************************************)
(* Claims about the retry state of concurrent operations (SpecOwn).        *)
(***************************************************************************)
\* The token or error is one of an earlier failed attempt of operation o.
OwnedBy(o, item) ==
    item # <<>> =>
        /\ item[1].op = o
        /\ \/ item[1].attempt < retryState[o].attempt
           \/ retryState[o].phase = "rejected"
                 /\ item[1].attempt = retryState[o].attempt

\* C32: retry state is never shared between tasks.  When several retried
\* operations run concurrently, the continuity token and the error an
\* attempt carries, and those an operation holds, were recovered from an
\* earlier failed attempt of the same operation; the error an attempt
\* carries is that of the operation's previous attempt, so the counter
\* counts the operation's own attempts; and a step of one operation leaves
\* the counter, token and error of every other operation as they were.
C32_RetryStateOwned ==
    /\ [](\A o \in Operations :
            /\ OwnedBy(o, retryState[o].lastSessionId)
            /\ OwnedBy(o, retryState[o].lastError)
            /\ OwnedBy(o, retryState[o].carried.sessionId)
            /\ OwnedBy(o, retryState[o].carried.error)
            /\ retryState[o].phase = "running" =>
                  /\ retryState[o].carried.sessionId = retryState[o].lastSessionId
                  /\ retryState[o].carried.error = retryState[o].lastError
                  /\ retryState[o].attempt = 1 => retryState[o].lastError = <<>>
                  /\ retryState[o].attempt > 1 =>
                        /\ retryState[o].lastError # <<>>
                        /\ retryState[o].lastError[1].attempt
                              = retryState[o].attempt - 1)
    /\ [][\A o, p \in Operations :
             (retryState'[o] # retryState[o] /\ retryState'[p] # retryState[p])
                 => o = p]_vars

C32_Witness ==
    /\ \A o \in Operations : retryState[o].phase = "running"
    /\ retryState[1].carried.sessionId = SessionIssued(1, 1)
    /\ retryState[2].carried.sessionId = SessionIssued(2, 2)
    /\ retryState[2].carried.error = ErrorOf(2, 2, "format_session")

LiveProcesses == {i \in 1..nRuns : runs[i].child = "running"}

\* C36 as claimed: the number of live agent processes of a batch is at most
\* the concurrency ceiling at any time, also after timeouts: the slot of a
\* timed-out invocation is not taken while its process has not exited.
C36_LiveProcessesAtMostCeiling == Cardinality(LiveProcesses) <= runCeiling

\* C37 as claimed: an invocation settles exactly once, with the outcome of
\* the first of timeout, start error and close: a settled promise keeps its
\* outcome, an invocation whose timer fired never reports success, and once
\* an invocation has settled its timer's callback sends no signal.
C37_FirstEventFixesOutcome ==
    /\ [](\A i \in 1..nRuns :
            runs[i].promise = "output" => runs[i].timeout # "fired")
    /\ [][\A i \in 1..nRuns :
            runs[i].promise # "pending" =>
                /\ runs'[i].promise = runs[i].promise
                /\ runs'[i].signalledBy = runs[i].signalledBy]_vars

====
